---- MODULE Spec2Model ----
(***************************************************************************)
(* Model of basilisk's QueryParser (src/basilisk/query_parser.py): the     *)
(* parser that turns a request's query parameters into filter, group-by,   *)
(* select and order-by operations on a query; and of the routes of         *)
(* CRUDRouter (src/basilisk/router.py) that use it and that create, read,  *)
(* update and delete the rows of a table.                                  *)
(*                                                                         *)
(* Strings are sequences of one-character strings, so that split, strip,   *)
(* lower, index and isalnum are computed character by character as Python  *)
(* computes them.  A dict is a sequence of <<key, value>> pairs with       *)
(* distinct keys (Python dicts keep insertion order).                      *)
(***************************************************************************)
EXTENDS Naturals, Sequences, FiniteSets

VARIABLES
    raw,            \* the caller's query_params mapping
    params,         \* self.params: the builder's working copy
    select_fields,  \* self.select_fields (Optional[str])
    order_by,       \* self.order_by (Optional[str])
    group_by,       \* self.group_by (Optional[str])
    query,          \* the query being built: the operations applied so far
    err,            \* the exception raised, if any
    ret,            \* what build_query returned to the caller
    pc,             \* position of the request in __init__ / build_query
    other,          \* a second QueryParser, serving a concurrent request
    builds,         \* what the earlier build_query calls on the builder gave
    store,          \* the table of the model: the rows the session holds
    http            \* the request the router is serving, and its response

vars == <<raw, params, select_fields, order_by, group_by, query, err, ret, pc, other,
          builds, store, http>>

\* the state outside the QueryParser objects
outside == <<builds, store, http>>

(***************************************************************************)
(* Bounds of the model.                                                    *)
(***************************************************************************)
MaxParams == 4   \* entries of a raw mapping
MaxTokens == 2   \* comma-separated tokens around the token under study
MaxBuilds == 3   \* calls of build_query on one builder
MaxId     == 3   \* largest id the table gives a row

(***************************************************************************)
(* Python str operations.                                                  *)
(***************************************************************************)
LowerSeq == <<"a","b","c","d","e","f","g","h","i","j","k","l","m",
              "n","o","p","q","r","s","t","u","v","w","x","y","z">>

UpperSeq == <<"A","B","C","D","E","F","G","H","I","J","K","L","M",
              "N","O","P","Q","R","S","T","U","V","W","X","Y","Z">>

Digits == {"0","1","2","3","4","5","6","7","8","9"}

Whitespace == {" ", "\t", "\n"}

Range(s) == {s[i] : i \in 1..Len(s)}

\* c.isalnum() for one character
IsAlnumChar(c) == c \in Range(LowerSeq) \cup Range(UpperSeq) \cup Digits

\* s.isalnum(): non-empty and every character alphanumeric
isalnum(s) == Len(s) > 0 /\ \A i \in 1..Len(s) : IsAlnumChar(s[i])

\* c.lower() for one character
LowerChar(c) ==
    IF \E i \in 1..26 : UpperSeq[i] = c
    THEN LowerSeq[CHOOSE i \in 1..26 : UpperSeq[i] = c]
    ELSE c

\* s.lower()
lower(s) == [i \in 1..Len(s) |-> LowerChar(s[i])]

\* s.strip()
strip(s) ==
    LET keep == {i \in 1..Len(s) : s[i] \notin Whitespace}
    IN  IF keep = {} THEN <<>>
        ELSE LET lo == CHOOSE i \in keep : \A j \in keep : i <= j
                 hi == CHOOSE i \in keep : \A j \in keep : j <= i
             IN  SubSeq(s, lo, hi)

\* s.find(sub) + 1: the 1-based position of the first occurrence, 0 if none
find(s, sub) ==
    LET hits == {i \in 1..(Len(s) + 1 - Len(sub)) :
                    SubSeq(s, i, i + Len(sub) - 1) = sub}
    IN  IF hits = {} THEN 0
        ELSE CHOOSE i \in hits : \A j \in hits : i <= j

\* s.rfind(sub) + 1: the 1-based position of the last occurrence, 0 if none
rfind(s, sub) ==
    LET hits == {i \in 1..(Len(s) + 1 - Len(sub)) :
                    SubSeq(s, i, i + Len(sub) - 1) = sub}
    IN  IF hits = {} THEN 0
        ELSE CHOOSE i \in hits : \A j \in hits : j <= i

\* sub in s
contains(s, sub) == find(s, sub) # 0

\* s.split(sep), sep non-empty: the parts between the occurrences of sep
RECURSIVE split(_, _)
split(s, sep) ==
    LET i == find(s, sep)
    IN  IF i = 0 THEN <<s>>
        ELSE <<SubSeq(s, 1, i - 1)>> \o split(SubSeq(s, i + Len(sep), Len(s)), sep)

\* s.split(sep, 1): at most one split, at the first occurrence
split1(s, sep) ==
    LET i == find(s, sep)
    IN  IF i = 0 THEN <<s>>
        ELSE <<SubSeq(s, 1, i - 1), SubSeq(s, i + Len(sep), Len(s))>>

\* s.replace(c, ""): s without the character c
RECURSIVE remove(_, _)
remove(s, c) ==
    IF s = <<>> THEN <<>>
    ELSE IF Head(s) = c THEN remove(Tail(s), c)
    ELSE <<Head(s)>> \o remove(Tail(s), c)

\* sep.join(parts)
RECURSIVE join(_, _)
join(parts, sep) ==
    IF parts = <<>> THEN <<>>
    ELSE IF Len(parts) = 1 THEN parts[1]
    ELSE parts[1] \o sep \o join(Tail(parts), sep)

\* Optional[str]
None == [some |-> FALSE, val |-> <<>>]

Some(s) == [some |-> TRUE, val |-> s]

\* Python truthiness of an Optional[str]: None and "" are falsy
Truthy(o) == o.some /\ o.val # <<>>

\* s[a:b] in 1-based inclusive positions; empty when the range is empty
slice(s, a, b) == IF b < a THEN <<>> ELSE SubSeq(s, a, b)

(***************************************************************************)
(* String constants of the program.                                        *)
(***************************************************************************)
K_select  == <<"s","e","l","e","c","t">>
K_orderBy == <<"o","r","d","e","r","B","y">>
K_groupBy == <<"g","r","o","u","p","B","y">>
K_skip    == <<"s","k","i","p">>
K_limit   == <<"l","i","m","i","t">>

Comma == <<",">>
Semi  == <<";">>
Colon == <<":">>
LPar  == <<"(">>
RPar  == <<")">>
AsSep == <<" ","a","s"," ">>

\* QueryParser.ALLOWED_AGGREGATIONS
ALLOWED_AGGREGATIONS ==
    { <<"c","o","u","n","t">>, <<"s","u","m">>, <<"a","v","g">>,
      <<"m","i","n">>, <<"m","a","x">> }

\* QueryParser.ALLOWED_ORDER_DIRECTIONS
ALLOWED_ORDER_DIRECTIONS == { <<"a","s","c">>, <<"d","e","s","c">> }

\* reserved_params as it would be without the pagination keys
reserved_params_no_pagination == {K_select, K_orderBy, K_groupBy}

\* self.reserved_params, set in __init__
reserved_params == {K_select, K_orderBy, K_groupBy, K_skip, K_limit}

(***************************************************************************)
(* The model class: the names for which hasattr(self.model, name) holds.   *)
(* One of the fields is called "limit", a name that is also reserved.      *)
(***************************************************************************)
F_id    == <<"i","d">>
F_name  == <<"n","a","m","e">>
F_limit == K_limit

Schema == {F_id, F_name, F_limit}

\* _validate_column_name as it would be if it accepted every name
validate_column_name_any(column_name) == column_name = column_name

\* QueryParser._validate_column_name
validate_column_name(column_name) == column_name \in Schema

(***************************************************************************)
(* Exceptions.  An HTTPException(400) is recorded by the raise site that   *)
(* produced it and the token its detail message names; the ValueError of   *)
(* str.index / str.rindex is not an HTTPException.                         *)
(***************************************************************************)
NoError == [kind |-> "none", tok |-> <<>>]

HTTP400(kind, tok) == [kind |-> kind, tok |-> tok]

ValueError == [kind |-> "ValueError", tok |-> <<>>]

(***************************************************************************)
(* Operations on the query being built.  A query is the sequence of the    *)
(* generative calls made on the base query, each a record                  *)
(*   [op, field, vals, cols].                                              *)
(***************************************************************************)
FilterEq(field, v)   == [op |-> "filter_eq", field |-> field, vals |-> <<v>>, cols |-> <<>>]

FilterIn(field, vs)  == [op |-> "filter_in", field |-> field, vals |-> vs, cols |-> <<>>]

GroupBy(field)       == [op |-> "group_by", field |-> field, vals |-> <<>>, cols |-> <<>>]

WithEntities(cols)   == [op |-> "with_entities", field |-> <<>>, vals |-> <<>>, cols |-> cols]

OrderBy(field, dir)  == [op |-> "order_by", field |-> field, vals |-> <<dir>>, cols |-> <<>>]

\* the outcome of a stage: the exception it raised, or the query it returned
Raise(e)  == [err |-> e, query |-> <<>>]

Return(q) == [err |-> NoError, query |-> q]

\* QueryParser._parse_filter_values
RECURSIVE strip_nonempty(_)
strip_nonempty(parts) ==
    IF parts = <<>> THEN <<>>
    ELSE IF strip(Head(parts)) # <<>>
         THEN <<strip(Head(parts))>> \o strip_nonempty(Tail(parts))
         ELSE strip_nonempty(Tail(parts))

\* _parse_filter_values as it would be if it kept alphanumeric values only
parse_filter_values_alnum(value) ==
    SelectSeq(strip_nonempty(split(value, Comma)), LAMBDA v : isalnum(v))

\* _parse_filter_values as it would be without the strip and the "if v.strip()"
parse_filter_values_raw(value) == split(value, Comma)

parse_filter_values(value) == strip_nonempty(split(value, Comma))

\* the loop as it would be without the "if not values: continue" of line 151
RECURSIVE filters_loop_no_skip(_, _, _)
filters_loop_no_skip(ps, i, q) ==
    IF i > Len(ps) THEN Return(q)
    ELSE LET field_name == ps[i][1]
             value      == ps[i][2]
             values     == parse_filter_values(value)
         IN  IF field_name \in reserved_params THEN filters_loop_no_skip(ps, i + 1, q)
             ELSE IF ~validate_column_name(field_name)
                  THEN Raise(HTTP400("Invalid filter field", field_name))
             ELSE IF Len(values) = 1
                  THEN filters_loop_no_skip(ps, i + 1, Append(q, FilterEq(field_name, values[1])))
             ELSE filters_loop_no_skip(ps, i + 1, Append(q, FilterIn(field_name, values)))

\* QueryParser.apply_filters: the loop over self.params.items() from entry i on
RECURSIVE filters_loop(_, _, _)
filters_loop(ps, i, q) ==
    IF i > Len(ps) THEN Return(q)
    ELSE LET field_name == ps[i][1]
             value      == ps[i][2]
             values     == parse_filter_values(value)
         IN  IF field_name \in reserved_params THEN filters_loop(ps, i + 1, q)
             ELSE IF ~validate_column_name(field_name)
                  THEN Raise(HTTP400("Invalid filter field", field_name))
             ELSE IF values = <<>> THEN filters_loop(ps, i + 1, q)
             ELSE IF Len(values) = 1
                  THEN filters_loop(ps, i + 1, Append(q, FilterEq(field_name, values[1])))
             ELSE filters_loop(ps, i + 1, Append(q, FilterIn(field_name, values)))

apply_filters(ps, q) == filters_loop(ps, 1, q)

\* parts[1].strip() if len(parts) > 1 else None
alias_of(parts) == IF Len(parts) > 1 THEN Some(strip(parts[2])) ELSE None

\* the alias check of lines 213 and 268:
\*   alias and (not alias or not alias.replace("_", "").isalnum())
alias_rejected(alias) == Truthy(alias) /\ ~isalnum(remove(alias.val, "_"))

\* the three ways a select token is cut into expression and alias
\* (lines 199-210 and 246-257): on ";", else on " as " of the lower-cased
\* token, else no alias
split_alias(field_spec) ==
    IF contains(field_spec, Semi)
    THEN LET parts == split(field_spec, Semi)
         IN  [expr |-> strip(parts[1]), alias |-> alias_of(parts)]
    ELSE IF contains(lower(field_spec), AsSep)
    THEN LET parts == split(lower(field_spec), AsSep)
         IN  [expr |-> strip(parts[1]), alias |-> alias_of(parts)]
    ELSE [expr |-> strip(field_spec), alias |-> None]

\* the outcome of parsing one select token: an exception or a field
FieldErr(e) == [err |-> e, field |-> [func |-> <<>>, column |-> <<>>, alias |-> None]]

FieldOk(func, column, alias) ==
    [err |-> NoError, field |-> [func |-> func, column |-> column, alias |-> alias]]

\* the aggregate branch as it would be without the whitelist check of line 224
parse_aggregation_unchecked(field_spec) ==
    LET sa          == split_alias(field_spec)
        func_part   == sa.expr
        alias       == sa.alias
        open        == find(func_part, LPar)
        close       == rfind(func_part, RPar)
        func_name   == lower(strip(slice(func_part, 1, open - 1)))
        column_name == strip(slice(func_part, open + 1, close - 1))
    IN  IF alias_rejected(alias)
        THEN FieldErr(HTTP400("Invalid alias format", alias.val))
        ELSE IF open = 0 \/ close = 0 THEN FieldErr(ValueError)
        ELSE IF ~validate_column_name(column_name)
             THEN FieldErr(HTTP400("Invalid column in aggregation", column_name))
        ELSE FieldOk(func_name, column_name, alias)

\* _parse_select_fields, the branch for a token containing "(" (lines 195-241)
parse_aggregation(field_spec) ==
    LET sa          == split_alias(field_spec)
        func_part   == sa.expr
        alias       == sa.alias
        open        == find(func_part, LPar)
        close       == rfind(func_part, RPar)
        func_name   == lower(strip(slice(func_part, 1, open - 1)))
        column_name == strip(slice(func_part, open + 1, close - 1))
    IN  IF alias_rejected(alias)
        THEN FieldErr(HTTP400("Invalid alias format", alias.val))
        ELSE IF open = 0 \/ close = 0 THEN FieldErr(ValueError)
        ELSE IF func_name \notin ALLOWED_AGGREGATIONS
             THEN FieldErr(HTTP400("Invalid aggregation function", func_name))
        ELSE IF ~validate_column_name(column_name)
             THEN FieldErr(HTTP400("Invalid column in aggregation", column_name))
        ELSE FieldOk(func_name, column_name, alias)

\* the plain branch as it would be without the format check of line 261
parse_plain_unchecked(field_spec) ==
    LET sa         == split_alias(field_spec)
        field_name == sa.expr
        alias      == sa.alias
    IN  IF alias_rejected(alias)
        THEN FieldErr(HTTP400("Invalid alias format", alias.val))
        ELSE IF ~validate_column_name(field_name)
             THEN FieldErr(HTTP400("Invalid select field", field_name))
        ELSE FieldOk(<<>>, field_name, alias)

\* _parse_select_fields, the branch for a plain token (lines 243-282)
parse_plain(field_spec) ==
    LET sa         == split_alias(field_spec)
        field_name == sa.expr
        alias      == sa.alias
    IN  IF field_name = <<>> \/ ~isalnum(remove(field_name, "_"))
        THEN FieldErr(HTTP400("Invalid select field format", field_name))
        ELSE IF alias_rejected(alias)
             THEN FieldErr(HTTP400("Invalid alias format", alias.val))
        ELSE IF ~validate_column_name(field_name)
             THEN FieldErr(HTTP400("Invalid select field", field_name))
        ELSE FieldOk(<<>>, field_name, alias)

\* one iteration of the loop of _parse_select_fields on a stripped token
parse_select_token(field_spec) ==
    IF contains(field_spec, LPar) THEN parse_aggregation(field_spec)
    ELSE parse_plain(field_spec)

\* the loop as it would be if it put each parsed field before the earlier ones
RECURSIVE select_loop_prepend(_, _, _)
select_loop_prepend(specs, i, fields) ==
    IF i > Len(specs) THEN [err |-> NoError, fields |-> fields]
    ELSE LET field_spec == strip(specs[i])
         IN  IF field_spec = <<>> THEN select_loop_prepend(specs, i + 1, fields)
             ELSE LET r == parse_select_token(field_spec)
                  IN  IF r.err # NoError THEN [err |-> r.err, fields |-> <<>>]
                      ELSE select_loop_prepend(specs, i + 1, <<r.field>> \o fields)

\* the outcome of _parse_select_fields: an exception or the list of fields
RECURSIVE select_loop(_, _, _)
select_loop(specs, i, fields) ==
    IF i > Len(specs) THEN [err |-> NoError, fields |-> fields]
    ELSE LET field_spec == strip(specs[i])
         IN  IF field_spec = <<>> THEN select_loop(specs, i + 1, fields)
             ELSE LET r == parse_select_token(field_spec)
                  IN  IF r.err # NoError THEN [err |-> r.err, fields |-> <<>>]
                      ELSE select_loop(specs, i + 1, Append(fields, r.field))

\* QueryParser._parse_select_fields
parse_select_fields(sel) ==
    IF ~Truthy(sel) THEN [err |-> NoError, fields |-> <<>>]
    ELSE select_loop(split(sel.val, Comma), 1, <<>>)

\* column_expr.label(alias) if alias else column_expr (lines 312-316)
labelled(f) ==
    [func |-> f.func, column |-> f.column,
     alias |-> IF Truthy(f.alias) THEN f.alias ELSE None]

\* QueryParser.apply_selection
apply_selection(sel, q) ==
    IF ~Truthy(sel) THEN Return(q)
    ELSE LET r == parse_select_fields(sel)
         IN  IF r.err # NoError THEN Raise(r.err)
             ELSE IF r.fields = <<>> THEN Return(q)
             ELSE Return(Append(q, WithEntities(
                      [i \in 1..Len(r.fields) |-> labelled(r.fields[i])])))

\* the iteration as it would be without the lower() of line 352
parse_order_token_no_lower(spec) ==
    IF contains(spec, Colon)
    THEN LET p == split1(spec, Colon)
         IN  <<strip(p[1]), strip(p[2])>>
    ELSE <<spec, <<"a","s","c">> >>

\* one iteration of the loop of _parse_order_by on a stripped token
parse_order_token(spec) ==
    IF contains(spec, Colon)
    THEN LET p == split1(spec, Colon)
         IN  <<strip(p[1]), lower(strip(p[2]))>>
    ELSE <<spec, <<"a","s","c">> >>

\* the loop as it would be if it put each parsed token before the earlier ones
RECURSIVE order_specs_of_reversed(_)
order_specs_of_reversed(specs) ==
    IF specs = <<>> THEN <<>>
    ELSE IF strip(Head(specs)) = <<>> THEN order_specs_of_reversed(Tail(specs))
    ELSE order_specs_of_reversed(Tail(specs)) \o <<parse_order_token(strip(Head(specs)))>>

\* the loop of _parse_order_by over the comma-separated tokens
RECURSIVE order_specs_of(_)
order_specs_of(specs) ==
    IF specs = <<>> THEN <<>>
    ELSE IF strip(Head(specs)) = <<>> THEN order_specs_of(Tail(specs))
    ELSE <<parse_order_token(strip(Head(specs)))>> \o order_specs_of(Tail(specs))

\* QueryParser._parse_order_by
parse_order_by(ob) ==
    IF ~Truthy(ob) THEN <<>> ELSE order_specs_of(split(ob.val, Comma))

\* the aliases the projection of a query defines
aliases_of(q) ==
    UNION {{q[i].cols[k].alias.val : k \in {j \in 1..Len(q[i].cols) : q[i].cols[j].alias.some}} :
              i \in 1..Len(q)}

\* the loop as it would be if a name that is not a column could be an
\* alias of the projection
RECURSIVE ordering_loop_aliases(_, _, _)
ordering_loop_aliases(order_specs, i, q) ==
    IF i > Len(order_specs) THEN Return(q)
    ELSE LET column_name == order_specs[i][1]
             direction   == order_specs[i][2]
         IN  IF ~validate_column_name(column_name) /\ column_name \notin aliases_of(q)
             THEN Raise(HTTP400("Invalid order by field", column_name))
             ELSE IF direction \notin ALLOWED_ORDER_DIRECTIONS
                  THEN Raise(HTTP400("Invalid order direction", direction))
             ELSE ordering_loop_aliases(order_specs, i + 1,
                                        Append(q, OrderBy(column_name, direction)))

\* QueryParser.apply_ordering: the loop over order_specs from entry i on
RECURSIVE ordering_loop(_, _, _)
ordering_loop(order_specs, i, q) ==
    IF i > Len(order_specs) THEN Return(q)
    ELSE LET column_name == order_specs[i][1]
             direction   == order_specs[i][2]
         IN  IF ~validate_column_name(column_name)
             THEN Raise(HTTP400("Invalid order by field", column_name))
             ELSE IF direction \notin ALLOWED_ORDER_DIRECTIONS
                  THEN Raise(HTTP400("Invalid order direction", direction))
             ELSE ordering_loop(order_specs, i + 1,
                                Append(q, OrderBy(column_name, direction)))

apply_ordering(ob, q) == ordering_loop(parse_order_by(ob), 1, q)

\* QueryParser._parse_group_by
parse_group_by(gb) ==
    IF ~Truthy(gb) THEN <<>> ELSE strip_nonempty(split(gb.val, Comma))

\* QueryParser.apply_grouping: the loop over group_fields from entry i on
RECURSIVE grouping_loop(_, _, _)
grouping_loop(group_fields, i, q) ==
    IF i > Len(group_fields) THEN Return(q)
    ELSE LET field_name == group_fields[i]
         IN  IF ~validate_column_name(field_name)
             THEN Raise(HTTP400("Invalid group by field", field_name))
             ELSE grouping_loop(group_fields, i + 1, Append(q, GroupBy(field_name)))

apply_grouping(gb, q) == grouping_loop(parse_group_by(gb), 1, q)

(***************************************************************************)
(* The request as a state machine.                                         *)
(***************************************************************************)
\* self.params.pop(param_name, None): the value popped
extract_param(ps, param_name) ==
    IF \E i \in 1..Len(ps) : ps[i][1] = param_name
    THEN Some(ps[CHOOSE i \in 1..Len(ps) : ps[i][1] = param_name][2])
    ELSE None

\* self.params.pop(param_name, None): the dict that is left
RECURSIVE without(_, _)
without(ps, param_name) ==
    IF ps = <<>> THEN <<>>
    ELSE IF Head(ps)[1] = param_name THEN without(Tail(ps), param_name)
    ELSE <<Head(ps)>> \o without(Tail(ps), param_name)

\* self.params = query_params: no copy, the caller's object itself
dict_alias(query_params) == [is_copy |-> FALSE, items |-> query_params]

\* dict(query_params): a new dict object with the items of query_params
dict(query_params) == [is_copy |-> TRUE, items |-> query_params]

\* build_query as it would be if it selected before it grouped
build_query_select_first ==
    <<"apply_filters", "apply_selection", "apply_grouping", "apply_ordering">>

\* build_query: the stages in the order it calls them
build_query == <<"apply_filters", "apply_grouping", "apply_selection", "apply_ordering">>

NoPlan == [returned |-> FALSE, plan |-> <<>>]

Plan(q) == [returned |-> TRUE, plan |-> q]

\* no second request
NoBuilder == [present |-> FALSE]

\* a second request, about to construct its QueryParser: from the mapping
\* object the first caller holds (same), or from a mapping of its own
NewBuilder(same, query_params) ==
    [present |-> TRUE, same |-> same, raw |-> query_params,
     params |-> <<>>, select_fields |-> None, order_by |-> None,
     group_by |-> None, query |-> <<>>, err |-> NoError, ret |-> NoPlan, pc |-> 0]

\* the requests being served: the first, and the second when there is one
Requests == {1} \cup (IF other.present THEN {2} ELSE {})

\* self, for request b: the fields of its QueryParser, with the locals of
\* its build_query
Self(b) ==
    IF b = 1
    THEN [params |-> params, select_fields |-> select_fields,
          order_by |-> order_by, group_by |-> group_by,
          query |-> query, err |-> err, ret |-> ret, pc |-> pc]
    ELSE [params |-> other.params, select_fields |-> other.select_fields,
          order_by |-> other.order_by, group_by |-> other.group_by,
          query |-> other.query, err |-> other.err, ret |-> other.ret, pc |-> other.pc]

\* the query_params argument of the QueryParser of request b
Source(b) == IF b = 1 \/ other.same THEN raw ELSE other.raw

\* self.params as it would be if params were an attribute of the class,
\* one cell for every QueryParser
ParamsOf_class_attribute(b) == params

\* self.params: an attribute of the instance
ParamsOf(b) == Self(b).params

\* the stage the build_query of request b is about to call
Stage(b) ==
    IF Self(b).pc \in 1..Len(build_query) THEN build_query[Self(b).pc] ELSE "none"

\* QueryParser.__init__
QueryParserInit ==
    \E b \in Requests :
        /\ Self(b).pc = 0
        /\ LET d  == dict(Source(b))
               p0 == d.items
               p1 == without(p0, K_select)
               p2 == without(p1, K_orderBy)
               p3 == without(p2, K_groupBy)
               \* the pops reach the caller's mapping only if self.params
               \* is that same object
               src == IF d.is_copy THEN Source(b) ELSE p3
           IN  IF b = 1
               THEN /\ select_fields' = extract_param(p0, K_select)
                    /\ order_by' = extract_param(p1, K_orderBy)
                    /\ group_by' = extract_param(p2, K_groupBy)
                    /\ params' = p3
                    /\ raw' = src
                    /\ pc' = 1
                    /\ UNCHANGED <<query, err, ret, other, outside>>
               ELSE /\ other' = [other EXCEPT
                                    !.select_fields = extract_param(p0, K_select),
                                    !.order_by = extract_param(p1, K_orderBy),
                                    !.group_by = extract_param(p2, K_groupBy),
                                    !.params = p3,
                                    !.raw = IF other.same THEN @ ELSE src,
                                    !.pc = 1]
                    /\ raw' = IF other.same THEN src ELSE raw
                    /\ UNCHANGED <<params, select_fields, order_by, group_by,
                                   query, err, ret, pc, outside>>

\* Continue as it would be if build_query caught a stage's exception and
\* went on with the query it had
Continue_swallow(r) ==
    IF r.err # NoError
    THEN /\ err' = r.err
         /\ pc' = pc + 1
         /\ UNCHANGED query
    ELSE /\ query' = r.query
         /\ pc' = pc + 1
         /\ UNCHANGED err

\* what a stage's outcome does to the request: an exception leaves
\* build_query at once, a returned query is handed to the next stage
Continue(r) ==
    IF r.err # NoError
    THEN /\ err' = r.err
         /\ pc' = Len(build_query) + 3
         /\ UNCHANGED query
    ELSE /\ query' = r.query
         /\ pc' = pc + 1
         /\ UNCHANGED err

\* the same for the second request
OtherContinue(r) ==
    other' = IF r.err # NoError
             THEN [other EXCEPT !.err = r.err, !.pc = Len(build_query) + 3]
             ELSE [other EXCEPT !.query = r.query, !.pc = @ + 1]

\* the outcome r of a stage of request b
Outcome(b, r) ==
    IF b = 1
    THEN /\ Continue(r)
         /\ UNCHANGED <<raw, params, select_fields, order_by, group_by, ret, other,
                        outside>>
    ELSE /\ OtherContinue(r)
         /\ UNCHANGED <<raw, params, select_fields, order_by, group_by,
                        query, err, ret, pc, outside>>

ApplyFilters ==
    \E b \in Requests :
        /\ Stage(b) = "apply_filters"
        /\ Outcome(b, apply_filters(ParamsOf(b), Self(b).query))

ApplyGrouping ==
    \E b \in Requests :
        /\ Stage(b) = "apply_grouping"
        /\ Outcome(b, apply_grouping(Self(b).group_by, Self(b).query))

ApplySelection ==
    \E b \in Requests :
        /\ Stage(b) = "apply_selection"
        /\ Outcome(b, apply_selection(Self(b).select_fields, Self(b).query))

ApplyOrdering ==
    \E b \in Requests :
        /\ Stage(b) = "apply_ordering"
        /\ Outcome(b, apply_ordering(Self(b).order_by, Self(b).query))

\* build_query: return query
ReturnQuery ==
    \E b \in Requests :
        /\ Self(b).pc = Len(build_query) + 1
        /\ IF b = 1
           THEN /\ ret' = Plan(query)
                /\ pc' = Len(build_query) + 2
                /\ UNCHANGED <<raw, params, select_fields, order_by, group_by,
                               query, err, other, outside>>
           ELSE /\ other' = [other EXCEPT !.ret = Plan(other.query),
                                          !.pc = Len(build_query) + 2]
                /\ UNCHANGED <<raw, params, select_fields, order_by, group_by,
                               query, err, ret, pc, outside>>

Next ==
    \/ QueryParserInit
    \/ ApplyFilters
    \/ ApplyGrouping
    \/ ApplySelection
    \/ ApplyOrdering
    \/ ReturnQuery

\* the request has ended: build_query returned, or raised
Returned == pc = Len(build_query) + 2

Raised   == pc = Len(build_query) + 3

Finished == Returned \/ Raised

(***************************************************************************)
(* Requests.  The raw mappings the caller may pass: dicts of at most       *)
(* MaxParams entries, in every insertion order.                            *)
(***************************************************************************)
Cat(A, B) == {a \o b : a \in A, b \in B}

\* the dicts of at most n entries drawn from the <<key, value>> pairs E
RECURSIVE Dicts(_, _)
Dicts(E, n) ==
    IF n = 0 THEN {<<>>}
    ELSE LET D == Dicts(E, n - 1)
         IN  D \cup UNION {{Append(d, e) :
                                e \in {x \in E : \A i \in 1..Len(d) : d[i][1] # x[1]}} :
                            d \in D}

\* the sequences of at most n elements of S
RECURSIVE SeqsUpTo(_, _)
SeqsUpTo(S, n) ==
    IF n = 0 THEN {<<>>}
    ELSE LET Q == SeqsUpTo(S, n - 1)
         IN  Q \cup {Append(q, x) : q \in Q, x \in S}

\* a comma-separated list holding the token t among at most n - 1 tokens of Pad
ListsAround(T, Pad, n) ==
    LET P == SeqsUpTo(Pad, n - 1)
    IN  {join(pp[1] \o <<t>> \o pp[2], Comma) :
            t \in T,
            pp \in {x \in P \X P : Len(x[1]) + Len(x[2]) <= n - 1}}

F_nope == <<"n","o","p","e">>

\* values of the mixed requests: one accepted and one rejected value per key
MixedEntries ==
    {<<K_select, v>> : v \in { <<"n","a","m","e",",","c","o","u","n","t","(","i","d",")",";","n">>,
                              <<"n","o","p","e">> }} \cup
    {<<K_orderBy, v>> : v \in { <<"n","a","m","e",":","d","e","s","c",",","i","d">>,
                               <<"i","d",":","u","p">> }} \cup
    {<<K_groupBy, v>> : v \in { <<"n","a","m","e",",","i","d">>,
                               <<"n","o","p","e">> }} \cup
    {<<F_id, v>> : v \in { <<"1">>,
                          <<"1",","," ","2">> }} \cup
    {<<F_nope, v>> : v \in { <<"x">> }} \cup
    {<<K_limit, v>> : v \in { <<"5">> }} \cup
    {<<K_skip, v>> : v \in { <<"0">> }}

\* the mixed requests of at most n entries
MixedRequests(n) == Dicts(MixedEntries, n)

\* a request about to construct its QueryParser from one of the mappings
StartOne(requests) ==
    /\ raw \in requests
    /\ params = <<>>
    /\ select_fields = None
    /\ order_by = None
    /\ group_by = None
    /\ query = <<>>
    /\ err = NoError
    /\ ret = NoPlan
    /\ pc = 0

\* no table, and no request being served by the router: the QueryParser is
\* used on its own
NoStore == <<>>

NoRequest == [route |-> "none"]

Standalone ==
    /\ builds = <<>>
    /\ store = NoStore
    /\ http = NoRequest

Start(requests) == StartOne(requests) /\ other = NoBuilder /\ Standalone

Init == Start(MixedRequests(MaxParams))

Spec == Init /\ [][Next]_vars

(***************************************************************************)
(* Requests that study one parameter: a select, an orderBy or filter       *)
(* values assembled from pieces, well-formed and malformed.                *)
(***************************************************************************)
PlainExprs == { <<"i","d">>,
                <<"I","D">>,
                <<"n","o","p","e">>,
                <<"i"," ","d">>,
                <<"i","d","'">>,
                <<>> }

FuncNames == { <<"c","o","u","n","t">>,
               <<"C","O","U","N","T">>,
               <<"d","r","o","p">>,
               <<>> }

ColumnTexts == { <<"i","d">>,
                 <<" ","i","d"," ">>,
                 <<"I","D">>,
                 <<"n","o","p","e">> }

Closings == { <<")">>,
              <<>>,
              <<")","x">> }

AggExprs == Cat(Cat(Cat(FuncNames, {LPar}), ColumnTexts), Closings)

AliasSeps == { <<";">>,
               <<" ","a","s"," ">>,
               <<" ","A","S"," ">> }

AliasTexts == { <<"t">>,
                <<"T">>,
                <<"a","_","b">>,
                <<"a"," ","b">>,
                <<"a",";","b">>,
                <<"x"," ","a","s"," ","y">>,
                <<"_">>,
                <<>> }

SelectTokens == Cat(PlainExprs \cup AggExprs, {<<>>} \cup Cat(AliasSeps, AliasTexts))

SelectPads == { <<"n","a","m","e">> }

\* a select list of at most n tokens, one of them under study
SelectRequests(n) ==
    {<< <<K_select, v>> >> : v \in ListsAround(SelectTokens, SelectPads, n)}

InitSelect == Start(SelectRequests(MaxTokens))

SpecSelect == InitSelect /\ [][Next]_vars

OrderFields == { <<"i","d">>,
                 <<" ","n","a","m","e"," ">>,
                 <<"I","D">>,
                 <<"n","o","p","e">> }

OrderDirections == { <<>>,
                     <<":","a","s","c">>,
                     <<":","A","S","C">>,
                     <<":","D","e","s","c">>,
                     <<":","d","e","s","c">>,
                     <<":"," ","a","s","c"," ">>,
                     <<":">>,
                     <<":","u","p">>,
                     <<":","a","s","c",":","x">> }

OrderTokens == Cat(OrderFields, OrderDirections)

OrderPads == { <<"n","a","m","e">>,
               <<"i","d",":","d","e","s","c">> }

\* an orderBy list of at most n tokens, one of them under study
OrderRequests(n) ==
    {<< <<K_orderBy, v>> >> : v \in ListsAround(OrderTokens, OrderPads, n)}

InitOrder == Start(OrderRequests(MaxTokens))

SpecOrder == InitOrder /\ [][Next]_vars

FilterParts == { <<"a">>,
                 <<" ","b"," ">>,
                 <<" ">>,
                 <<>>,
                 <<"c","'",";","-","-">> }

\* filter values of at most n comma-separated parts
FilterValues(n) == {join(q, Comma) : q \in SeqsUpTo(FilterParts, n)}

FilterFields == {F_id, F_name}

\* filters on one or on both fields, in either order: one value of at most
\* n parts, the other of at most one part
FilterRequests(n) ==
    LET long  == {<<k, v>> : k \in FilterFields, v \in FilterValues(n)}
        short == {<<k, v>> : k \in FilterFields, v \in FilterValues(1)}
        pairs == {p \in long \X short : p[1][1] # p[2][1]}
    IN  {<<>>} \cup {<<e>> : e \in long}
               \cup {<<p[1], p[2]>> : p \in pairs}
               \cup {<<p[2], p[1]>> : p \in pairs}

InitFilter == Start(FilterRequests(MaxTokens))

SpecFilter == InitFilter /\ [][Next]_vars

(***************************************************************************)
(* Two concurrent requests.  Each constructs its own QueryParser and runs  *)
(* its build_query; their steps interleave in every way.  The second       *)
(* parser is constructed either from the very mapping object the first     *)
(* caller holds, or from a mapping of its own.                             *)
(***************************************************************************)
OtherReturned == other.present /\ other.pc = Len(build_query) + 2

OtherRaised   == other.present /\ other.pc = Len(build_query) + 3

OtherFinished == OtherReturned \/ OtherRaised

\* a request that uses every stage, and one whose last stage fails
PairRequests ==
    Dicts(MixedEntries, 1) \cup
    { << <<K_orderBy, <<"n","a","m","e",":","d","e","s","c",",","i","d">> >>,
         <<F_id, <<"1",","," ","2">> >>,
         <<K_select, <<"n","a","m","e",",","c","o","u","n","t","(","i","d",")",";","n">> >>,
         <<K_groupBy, <<"n","a","m","e",",","i","d">> >> >>,
      << <<F_name, <<"x">> >>,
         <<K_groupBy, <<"n","a","m","e">> >>,
         <<K_orderBy, <<"i","d",":","u","p">> >> >> }

InitPair ==
    /\ StartOne(PairRequests)
    /\ Standalone
    /\ other \in {NewBuilder(TRUE, raw)} \cup {NewBuilder(FALSE, r) : r \in PairRequests}

SpecPair == InitPair /\ [][Next]_vars

(***************************************************************************)
(* Requests with a select that defines aliases and an orderBy that names   *)
(* fields or those aliases.                                                *)
(***************************************************************************)
AliasEntries ==
    {<<K_select, v>> : v \in { <<"n","a","m","e",",","c","o","u","n","t","(","i","d",")",";","n">>,
                              <<"i","d"," ","a","s"," ","t","o","t","a","l">>,
                              <<"c","o","u","n","t","(","i","d",")"," ","a","s"," ","n","a","m","e">> }} \cup
    {<<K_orderBy, v>> : v \in { <<"n">>,
                               <<"n",":","d","e","s","c">>,
                               <<"t","o","t","a","l">>,
                               <<"n","a","m","e">>,
                               <<"i","d",",","n">>,
                               <<"i","d",":","u","p",",","n">>,
                               <<"n","a","m","e",":","d","e","s","c",",","t","o","t","a","l",":","a","s","c">> }} \cup
    {<<K_groupBy, v>> : v \in { <<"n","a","m","e">> }}

AliasRequests == Dicts(AliasEntries, 3)

InitAlias == Start(AliasRequests)

SpecAlias == InitAlias /\ [][Next]_vars

(***************************************************************************)
(* Requests that are invalid in more than one place: two unknown filter    *)
(* keys, and select, orderBy and groupBy values with two invalid tokens.   *)
(***************************************************************************)
F_zz == <<"z","z">>

InvalidEntries ==
    {<<K_select, v>> : v \in { <<"n","o","p","e",",","d","r","o","p","(","i","d",")">>,
                              <<"d","r","o","p","(","i","d",")",",","n","o","p","e">>,
                              <<"n","a","m","e">> }} \cup
    {<<K_orderBy, v>> : v \in { <<"i","d",":","u","p",",","n","o","p","e">>,
                               <<"n","o","p","e",",","i","d",":","u","p">>,
                               <<"i","d">> }} \cup
    {<<K_groupBy, v>> : v \in { <<"z","z",",","n","o","p","e">>,
                               <<"n","a","m","e">> }} \cup
    {<<F_nope, v>> : v \in { <<"x">> }} \cup
    {<<F_zz, v>> : v \in { <<"y">> }} \cup
    {<<F_id, v>> : v \in { <<"1">> }}

InvalidRequests(n) == Dicts(InvalidEntries, n)

InitInvalid == Start(InvalidRequests(MaxParams))

SpecInvalid == InitInvalid /\ [][Next]_vars

(***************************************************************************)
(* A builder whose build_query is called again, with the same base query,  *)
(* after it returned or raised.                                            *)
(***************************************************************************)
\* the query build_query starts from, as it would be if the builder kept
\* the query of its last call
entry_query_kept(base_query, last) == last

\* build_query: query = base_query
entry_query(base_query, last) == base_query

\* the caller calls build_query(base_query) once more
BuildQueryAgain ==
    /\ Finished
    /\ Len(builds) + 1 < MaxBuilds
    /\ builds' = Append(builds, [err |-> err, ret |-> ret])
    /\ query' = entry_query(<<>>, query)
    /\ err' = NoError
    /\ ret' = NoPlan
    /\ pc' = 1
    /\ UNCHANGED <<raw, params, select_fields, order_by, group_by, other, store, http>>

NextAgain ==
    \/ QueryParserInit
    \/ ApplyFilters
    \/ ApplyGrouping
    \/ ApplySelection
    \/ ApplyOrdering
    \/ ReturnQuery
    \/ BuildQueryAgain

InitAgain == Start(MixedRequests(MaxParams - 1))

SpecAgain == InitAgain /\ [][NextAgain]_vars

(***************************************************************************)
(* The list endpoint of CRUDRouter (src/basilisk/router.py).  FastAPI      *)
(* reads skip, limit and include from the query string; list_items loads   *)
(* the associations named by include, hands all the query parameters to a  *)
(* QueryParser, paginates the query build_query returns and executes it.   *)
(* A row of the table is a record [id, name, limit].                       *)
(***************************************************************************)
Offset(n)     == [op |-> "offset", field |-> <<>>, vals |-> <<n>>, cols |-> <<>>]

Limit(n)      == [op |-> "limit", field |-> <<>>, vals |-> <<n>>, cols |-> <<>>]

\* query.options(joinedload(...)) along one include path
Options(path) == [op |-> "options", field |-> <<>>, vals |-> path, cols |-> <<>>]

K_include == <<"i","n","c","l","u","d","e">>

Dot == <<".">>

DigitSeq == <<"0","1","2","3","4","5","6","7","8","9">>

IndexOf(c, seq) == CHOOSE i \in 1..Len(seq) : seq[i] = c

\* int(s) for a string of decimal digits
RECURSIVE int(_)
int(s) ==
    IF Len(s) = 1 THEN IndexOf(s[1], DigitSeq) - 1
    ELSE 10 * int(SubSeq(s, 1, Len(s) - 1)) + (IndexOf(s[Len(s)], DigitSeq) - 1)

\* whether FastAPI can read s as a non-negative int
is_int(s) == s # <<>> /\ \A i \in 1..Len(s) : s[i] \in Digits

\* FastAPI's Query(default, ge=lo, le=hi) for an int parameter: the value,
\* or a validation failure, which FastAPI answers with 422
Query(ps, name, default, lo, hi) ==
    LET v == extract_param(ps, name)
    IN  IF ~v.some THEN [ok |-> TRUE, val |-> default]
        ELSE IF is_int(v.val) /\ int(v.val) >= lo /\ int(v.val) <= hi
        THEN [ok |-> TRUE, val |-> int(v.val)]
        ELSE [ok |-> FALSE, val |-> default]

\* FastAPI's Query("") for the str parameter include
QueryStr(ps, name) ==
    LET v == extract_param(ps, name)
    IN  IF v.some THEN v.val ELSE <<>>

\* get_model_associations: the relationships of the model and of its targets
A_posts  == <<"p","o","s","t","s">>
A_author == <<"a","u","t","h","o","r">>

get_model_associations(m) ==
    IF m = "Item" THEN {A_posts} ELSE IF m = "Post" THEN {A_author} ELSE {}

get_association_target(m, assoc_name) == IF m = "Item" THEN "Post" ELSE "Item"

\* parse_include_param: the include paths, each the list of its parts; a
\* path named twice is one key of the dictionary
RECURSIVE distinct(_)
distinct(s) ==
    IF s = <<>> THEN <<>>
    ELSE LET d == distinct(SubSeq(s, 1, Len(s) - 1))
         IN  IF s[Len(s)] \in Range(d) THEN d ELSE Append(d, s[Len(s)])

parse_include_param(include_str) ==
    IF include_str = <<>> THEN <<>>
    ELSE LET includes == split(include_str, Comma)
         IN  distinct([i \in 1..Len(includes) |-> split(strip(includes[i]), Dot)])

max_depth == 3

\* validate_include_param along one path: the first name that is not an
\* association of the model it is asked of, or <<>> when there is none
RECURSIVE invalid_assoc(_, _)
invalid_assoc(m, parts) ==
    IF parts = <<>> THEN None
    ELSE IF Head(parts) \notin get_model_associations(m) THEN Some(Head(parts))
    ELSE invalid_assoc(get_association_target(m, Head(parts)), Tail(parts))

RECURSIVE validate_include_param(_, _)
validate_include_param(m, include_dict) ==
    IF include_dict = <<>> THEN NoError
    ELSE LET path == Head(include_dict)
             bad  == invalid_assoc(m, path)
         IN  IF Len(path) > max_depth + 1
             THEN HTTP400("Include nesting depth exceeds maximum", <<>>)
             ELSE IF bad.some
             THEN HTTP400("not a valid association", bad.val)
             ELSE validate_include_param(m, Tail(include_dict))

\* apply_includes_to_query: one options(joinedload) per included path
apply_includes_to_query(q, include_dict) ==
    q \o [i \in 1..Len(include_dict) |-> Options(include_dict[i])]

\* query.offset(skip).limit(limit) as it would be if the handler paginated
\* the base query before it handed it to the parser
paginate_first(q, skip, limit) == <<Offset(skip), Limit(limit)>> \o q

\* query.offset(skip).limit(limit)
paginate(q, skip, limit) == q \o <<Offset(skip), Limit(limit)>>

(***************************************************************************)
(* Execution of a query on the table: query.all().  The WHERE clause is    *)
(* the conjunction of the filters, ORDER BY the list of the order clauses, *)
(* then OFFSET and LIMIT.  SQLAlchemy refuses filter, group_by and         *)
(* order_by on a Query that already has LIMIT or OFFSET.  Only queries for *)
(* whole rows are executed: no with_entities, no group_by.                 *)
(***************************************************************************)
NumericColumns == {F_id, F_limit}

column(row, f) ==
    CASE f = F_id    -> row.id
      [] f = F_name  -> row.name
      [] f = F_limit -> row.limit

\* the order of characters: digits, upper case, lower case
CharSeq == DigitSeq \o UpperSeq \o LowerSeq

RECURSIVE str_less(_, _)
str_less(a, b) ==
    IF b = <<>> THEN FALSE
    ELSE IF a = <<>> THEN TRUE
    ELSE IF Head(a) = Head(b) THEN str_less(Tail(a), Tail(b))
    ELSE IndexOf(Head(a), CharSeq) < IndexOf(Head(b), CharSeq)

less(f, x, y) == IF f \in NumericColumns THEN x < y ELSE str_less(x, y)

\* the store compares a column with a literal of the request: a numeric
\* column with the number the literal denotes
matches(row, f, v) ==
    IF f \in NumericColumns THEN is_int(v) /\ int(v) = column(row, f)
    ELSE column(row, f) = v

where(row, o) ==
    CASE o.op = "filter_eq" -> matches(row, o.field, o.vals[1])
      [] o.op = "filter_in" -> \E i \in 1..Len(o.vals) : matches(row, o.field, o.vals[i])
      [] OTHER -> TRUE

\* whether row a sorts before row b under the ORDER BY clauses
RECURSIVE precedes(_, _, _)
precedes(a, b, clauses) ==
    IF clauses = <<>> THEN FALSE
    ELSE LET f == Head(clauses).field
             x == column(a, f)
             y == column(b, f)
         IN  IF x = y THEN precedes(a, b, Tail(clauses))
             ELSE IF Head(clauses).vals[1] = <<"d","e","s","c">> THEN less(f, y, x)
             ELSE less(f, x, y)

\* rows in the order of the clauses; rows the clauses do not tell apart keep
\* the order of the table
RECURSIVE sorted(_, _)
sorted(rows, clauses) ==
    IF rows = <<>> THEN <<>>
    ELSE LET s == sorted(SubSeq(rows, 1, Len(rows) - 1), clauses)
             r == rows[Len(rows)]
             k == Cardinality({i \in 1..Len(s) : ~precedes(r, s[i], clauses)})
         IN  SubSeq(s, 1, k) \o <<r>> \o SubSeq(s, k + 1, Len(s))

OpsNamed(q, names) == SelectSeq(q, LAMBDA o : o.op \in names)

\* the value of the last offset / limit call, or the default
LastOf(q, name, default) ==
    LET s == OpsNamed(q, {name})
    IN  IF s = <<>> THEN default ELSE s[Len(s)].vals[1]

\* a filter, group_by or order_by called after offset or limit
AfterLimitOffset(q) ==
    \E i, j \in 1..Len(q) :
        /\ i < j
        /\ q[i].op \in {"offset", "limit"}
        /\ q[j].op \in {"filter_eq", "filter_in", "group_by", "order_by"}

InvalidRequestError == [kind |-> "InvalidRequestError", tok |-> <<>>]

all(q, rows) ==
    IF AfterLimitOffset(q) THEN [err |-> InvalidRequestError, items |-> <<>>]
    ELSE LET kept    == SelectSeq(rows, LAMBDA r : \A i \in 1..Len(q) : where(r, q[i]))
             ordered == sorted(kept, OpsNamed(q, {"order_by"}))
             skip    == LastOf(q, "offset", 0)
             limit   == LastOf(q, "limit", Len(ordered))
             first   == IF skip < Len(ordered) THEN skip + 1 ELSE Len(ordered) + 1
             last    == IF skip + limit < Len(ordered) THEN skip + limit ELSE Len(ordered)
         IN  [err |-> NoError, items |-> slice(ordered, first, last)]

\* no QueryParser has been constructed for the request yet
NotConstructed == Len(build_query) + 4

\* a GET / the router has received, for a router with or without associations
ListRequest(enable_associations) ==
    [route |-> "list", step |-> "received", enable_associations |-> enable_associations,
     skip |-> 0, limit |-> 100, status |-> 0, detail |-> NoError,
     executed |-> <<>>, items |-> <<>>]

Respond(status, detail, executed, items) ==
    [http EXCEPT !.step = "responded", !.status = status, !.detail = detail,
                 !.executed = executed, !.items = items]

\* skip has no upper limit
NoLimit == 1000000

\* list_items, from the parameters FastAPI reads to the call of QueryParser
ListItems ==
    /\ http.route = "list"
    /\ http.step = "received"
    /\ LET skip         == Query(raw, K_skip, 0, 0, NoLimit)
           limit        == Query(raw, K_limit, 100, 1, 1000)
           include      == QueryStr(raw, K_include)
           include_dict == parse_include_param(include)
           error        == validate_include_param("Item", include_dict)
           loads        == http.enable_associations /\ include # <<>>
       IN  IF ~skip.ok \/ ~limit.ok
           THEN /\ http' = Respond(422, NoError, <<>>, <<>>)
                /\ UNCHANGED <<query, pc>>
           ELSE IF loads /\ error # NoError
           THEN /\ http' = Respond(400, error, <<>>, <<>>)
                /\ UNCHANGED <<query, pc>>
           ELSE /\ query' = IF loads THEN apply_includes_to_query(<<>>, include_dict)
                            ELSE <<>>
                /\ pc' = 0
                /\ http' = [http EXCEPT !.step = "parsing",
                                        !.skip = skip.val, !.limit = limit.val]
    /\ UNCHANGED <<raw, params, select_fields, order_by, group_by, err, ret, other,
                   builds, store>>

\* list_items after build_query returned: pagination and execution
ListPaginate ==
    /\ http.route = "list"
    /\ http.step = "parsing"
    /\ Returned
    /\ LET executed == paginate(ret.plan, http.skip, http.limit)
           r        == all(executed, store)
       IN  http' = IF r.err = NoError
                   THEN Respond(200, NoError, executed, r.items)
                   ELSE Respond(500, r.err, executed, <<>>)
    /\ UNCHANGED <<raw, params, select_fields, order_by, group_by, query, err, ret, pc,
                   other, builds, store>>

\* list_items when QueryParser raised: FastAPI answers an HTTPException
\* with its status, any other exception with 500
ListError ==
    /\ http.route = "list"
    /\ http.step = "parsing"
    /\ Raised
    /\ http' = Respond(IF err = ValueError THEN 500 ELSE 400, err, <<>>, <<>>)
    /\ UNCHANGED <<raw, params, select_fields, order_by, group_by, query, err, ret, pc,
                   other, builds, store>>

NextList ==
    \/ ListItems
    \/ QueryParserInit
    \/ ApplyFilters
    \/ ApplyGrouping
    \/ ApplySelection
    \/ ApplyOrdering
    \/ ReturnQuery
    \/ ListPaginate
    \/ ListError

\* the dicts that give at most n of the keys of K, in the order of K, one
\* of the values listed for it
RECURSIVE Picks(_, _)
Picks(K, n) ==
    IF K = <<>> THEN {<<>>}
    ELSE Picks(Tail(K), n) \cup
         (IF n = 0 THEN {}
          ELSE {<< <<Head(K)[1], v>> >> \o d : v \in Head(K)[2], d \in Picks(Tail(K), n - 1)})

ListEntries ==
    << <<K_include, { A_posts,
                      <<"p","o","s","t","s",".","a","u","t","h","o","r">>,
                      <<"n","o","p","e">> }>>,
       <<F_name,    { <<"a">>, <<"a",","," ","b">> }>>,
       <<F_id,      { <<"2",",","3">> }>>,
       <<F_nope,    { <<"x">> }>>,
       <<K_orderBy, { <<"n","a","m","e",":","d","e","s","c">>,
                      <<"n","a","m","e",",","i","d",":","d","e","s","c">>,
                      <<"i","d",":","u","p">> }>>,
       <<K_skip,    { <<"0">>, <<"1">>, <<"5">>, <<"x">> }>>,
       <<K_limit,   { <<"1">>, <<"2">>, <<"0">> }>> >>

ListRequests(n) == Picks(ListEntries, n)

\* the table the list requests read
Table ==
    << [id |-> 1, name |-> <<"a">>, limit |-> 7],
       [id |-> 2, name |-> <<"b">>, limit |-> 5],
       [id |-> 3, name |-> <<"a">>, limit |-> 5],
       [id |-> 4, name |-> <<"c">>, limit |-> 7] >>

InitList ==
    /\ raw \in ListRequests(MaxParams)
    /\ params = <<>>
    /\ select_fields = None
    /\ order_by = None
    /\ group_by = None
    /\ query = <<>>
    /\ err = NoError
    /\ ret = NoPlan
    /\ pc = NotConstructed
    /\ other = NoBuilder
    /\ builds = <<>>
    /\ store = Table
    /\ http \in {ListRequest(a) : a \in BOOLEAN}

SpecList == InitList /\ [][NextList]_vars

(***************************************************************************)
(* The item routes of CRUDRouter: POST /, GET /{id}, PUT /{id} and         *)
(* DELETE /{id} on a model User(id, name, email) whose email is unique,    *)
(* with the update schema UserUpdate(name = None, email = None).  Each     *)
(* request has a session of its own; the table is what is committed.       *)
(***************************************************************************)
Names  == {"ann", "bob"}

Emails == {"a@x", "b@x", "c@x"}

Columns == {"name", "email"}

\* a request body as the pydantic object FastAPI hands to the handler: the
\* value of every field, None for a field the body leaves out, and the set
\* of the fields the body gives
Item(given) ==
    [values |-> [f \in Columns |-> IF f \in DOMAIN given THEN given[f] ELSE "None"],
     fields_set |-> DOMAIN given]

ValuesOf(f) == IF f = "name" THEN Names ELSE Emails

\* the JSON objects over the fields S
Given(S) == {g \in [S -> Names \cup Emails] : \A f \in S : g[f] \in ValuesOf(f)}

\* UserCreate: every field is required
CreateItems == {Item(g) : g \in Given(Columns)}

\* UserUpdate: every field is optional
UpdateItems == {Item(g) : g \in UNION {Given(S) : S \in SUBSET Columns}}

\* item.model_dump(): every field, set or not
model_dump(item) == item.values

\* item.model_dump(exclude_unset=True) as it would be without exclude_unset
model_dump_with_unset(item) == item.values

\* item.model_dump(exclude_unset=True): the fields the body gives
model_dump_exclude_unset(item) == [f \in item.fields_set |-> item.values[f]]

\* db.query(model).filter(model.id == item_id).first(): the row in a list,
\* or the empty list for None
first(rows, item_id) ==
    LET found == SelectSeq(rows, LAMBDA r : r.id = item_id)
    IN  IF found = <<>> THEN <<>> ELSE <<found[1]>>

\* for field, value in update_data.items(): setattr(db_item, field, value)
setattrs(db_item, update_data) ==
    [f \in DOMAIN db_item |-> IF f \in DOMAIN update_data THEN update_data[f] ELSE db_item[f]]

\* the id SQLite gives a new row: one more than the largest in the table
next_id(rows) ==
    IF rows = <<>> THEN 1
    ELSE 1 + (CHOOSE m \in {rows[i].id : i \in 1..Len(rows)} :
                 \A i \in 1..Len(rows) : rows[i].id <= m)

\* the unique constraint on email: commit raises IntegrityError
unique_violation(rows) ==
    \E i, j \in 1..Len(rows) :
        i # j /\ rows[i].email = rows[j].email /\ rows[i].email # "None"

\* db.add(db_item)
add(rows, data) ==
    Append(rows, [id |-> next_id(rows), name |-> data.name, email |-> data.email])

\* the table with the row of db_item as it is now
updated(rows, db_item) ==
    [i \in 1..Len(rows) |-> IF rows[i].id = db_item.id THEN db_item ELSE rows[i]]

\* db.delete(db_item) as it would be without the commit
delete_uncommitted(rows, db_item) == rows

\* db.delete(db_item); db.commit()
delete(rows, db_item) == SelectSeq(rows, LAMBDA r : r.id # db_item.id)

\* the router before any request, with the ids deleted and not created since
NoResponse ==
    [route |-> "none", item_id |-> 0, item |-> Item(<<>>), status |-> 0,
     returned |-> <<>>, gone |-> {}]

Response(route, item_id, item, status, returned, gone) ==
    [route |-> route, item_id |-> item_id, item |-> item, status |-> status,
     returned |-> returned, gone |-> gone]

ParserUnchanged ==
    UNCHANGED <<raw, params, select_fields, order_by, group_by, query, err, ret, pc,
                other, builds>>

\* create_item
CreateItem ==
    \E item \in CreateItems :
        /\ next_id(store) <= MaxId
        /\ LET rows == add(store, model_dump(item))
           IN  IF unique_violation(rows)
               THEN \* db.rollback(); HTTPException(400)
                    /\ store' = store
                    /\ http' = Response("create", 0, item, 400, <<>>, http.gone)
               ELSE /\ store' = rows
                    /\ http' = Response("create", 0, item, 201, <<rows[Len(rows)]>>,
                                        http.gone \ {rows[Len(rows)].id})
        /\ ParserUnchanged

\* get_item
GetItem ==
    \E item_id \in 1..MaxId :
        /\ LET found == first(store, item_id)
           IN  http' = IF found = <<>>
                       THEN Response("get", item_id, Item(<<>>), 404, <<>>, http.gone)
                       ELSE Response("get", item_id, Item(<<>>), 200, found, http.gone)
        /\ UNCHANGED store
        /\ ParserUnchanged

\* update_item
UpdateItem ==
    \E item_id \in 1..MaxId, item \in UpdateItems :
        /\ LET found == first(store, item_id)
           IN  IF found = <<>>
               THEN /\ store' = store
                    /\ http' = Response("update", item_id, item, 404, <<>>, http.gone)
               ELSE LET db_item == setattrs(found[1], model_dump_exclude_unset(item))
                        rows    == updated(store, db_item)
                    IN  IF unique_violation(rows)
                        THEN \* db.rollback(); HTTPException(400)
                             /\ store' = store
                             /\ http' = Response("update", item_id, item, 400, <<>>, http.gone)
                        ELSE /\ store' = rows
                             /\ http' = Response("update", item_id, item, 200, <<db_item>>,
                                                 http.gone)
        /\ ParserUnchanged

\* delete_item
DeleteItem ==
    \E item_id \in 1..MaxId :
        /\ LET found == first(store, item_id)
           IN  IF found = <<>>
               THEN /\ store' = store
                    /\ http' = Response("delete", item_id, Item(<<>>), 404, <<>>, http.gone)
               ELSE /\ store' = delete(store, found[1])
                    /\ http' = Response("delete", item_id, Item(<<>>), 204, <<>>,
                                        http.gone \cup {item_id})
        /\ ParserUnchanged

NextCrud ==
    \/ CreateItem
    \/ GetItem
    \/ UpdateItem
    \/ DeleteItem

InitCrud ==
    /\ raw = <<>>
    /\ params = <<>>
    /\ select_fields = None
    /\ order_by = None
    /\ group_by = None
    /\ query = <<>>
    /\ err = NoError
    /\ ret = NoPlan
    /\ pc = NotConstructed
    /\ other = NoBuilder
    /\ builds = <<>>
    /\ store = <<>>
    /\ http = NoResponse

SpecCrud == InitCrud /\ [][NextCrud]_vars

(***************************************************************************)
(* Properties.                                                             *)
(***************************************************************************)
FilterOps == {"filter_eq", "filter_in"}

\* the place of an operation in the order filter, group, select, order
Rank(op) ==
    CASE op \in FilterOps -> 1
      [] op = "group_by" -> 2
      [] op = "with_entities" -> 3
      [] op = "order_by" -> 4

Ops(q) == {q[i].op : i \in 1..Len(q)}

HasKey(d, k) == \E i \in 1..Len(d) : d[i][1] = k

\* C1: in every plan build_query returns, the filter predicates come first,
\* then the group-by columns, then the projection, then the order-by
\* clauses, whatever the order of the keys in the raw mapping.
C1_CompositionOrder ==
    Returned =>
        \A i, j \in 1..Len(ret.plan) :
            i < j => Rank(ret.plan[i].op) <= Rank(ret.plan[j].op)

\* a plan with all four kinds of operation, built from a mapping that names
\* orderBy first and a filter key last
C1_Witness ==
    /\ Returned
    /\ {Rank(o) : o \in Ops(ret.plan)} = 1..4
    /\ raw[1][1] = K_orderBy
    /\ raw[Len(raw)][1] = F_id

\* the field names an operation of a plan refers to
FieldsOf(o) ==
    IF o.op = "with_entities" THEN {o.cols[i].column : i \in 1..Len(o.cols)}
    ELSE {o.field}

\* C3: every field name a returned plan references, in a filter, a group-by
\* column, a plain or aggregate projection or an order-by clause, is in the
\* schema.
C3_PlanFieldsInSchema ==
    Returned => \A i \in 1..Len(ret.plan) : FieldsOf(ret.plan[i]) \subseteq Schema

\* a returned plan with a membership filter and an aggregate projection
C3_Witness ==
    /\ Returned
    /\ \E i \in 1..Len(ret.plan) : ret.plan[i].op = "filter_in"
    /\ \E i \in 1..Len(ret.plan) :
          /\ ret.plan[i].op = "with_entities"
          /\ \E k \in 1..Len(ret.plan[i].cols) : ret.plan[i].cols[k].func # <<>>

\* C6: once a stage has raised, build_query has ended without returning a
\* plan, and no later stage runs.
C6_FailFast ==
    err # NoError => Raised /\ ret = NoPlan /\ ~ENABLED Next

\* the ordering stage raised after the earlier stages had applied operations
C6_Witness ==
    /\ Raised
    /\ err.kind = "Invalid order direction"
    /\ Len(query) > 1
    /\ ret = NoPlan

\* the reserved parameter keys the specification lists
ReservedKeys == {K_select, K_orderBy, K_groupBy, K_skip, K_limit}

\* C8: select, orderBy, groupBy, skip and limit are never filter fields: no
\* filter predicate is on one of them and no invalid-filter-field error
\* names one of them, whether or not the schema has a field of that name.
C8_ReservedNotFiltered ==
    /\ \A i \in 1..Len(query) :
          query[i].op \in FilterOps => query[i].field \notin ReservedKeys
    /\ err.kind = "Invalid filter field" => err.tok \notin ReservedKeys

\* a plan returned for a mapping that has skip and limit (limit is also a
\* field of the schema, skip is not) and a filter
C8_Witness ==
    /\ Returned
    /\ HasKey(raw, K_skip) /\ HasKey(raw, K_limit) /\ HasKey(raw, F_id)
    /\ K_limit \in Schema /\ K_skip \notin Schema
    /\ \E i \in 1..Len(ret.plan) : ret.plan[i].op \in FilterOps

\* the value of key k in the mapping d
ValueOf(d, k) == d[CHOOSE i \in 1..Len(d) : d[i][1] = k][2]

\* the comma-separated parts of a value, trimmed, the empty ones dropped
TrimmedParts(value) ==
    LET parts == split(value, Comma)
    IN  SelectSeq([i \in 1..Len(parts) |-> strip(parts[i])], LAMBDA x : x # <<>>)

\* the filter predicates of a query on the field f
PredicatesOn(q, f) == {i \in 1..Len(q) : q[i].op \in FilterOps /\ q[i].field = f}

\* the keys of the raw mapping that must yield a predicate
FilteringKeys ==
    {raw[i][1] : i \in {j \in 1..Len(raw) :
        /\ raw[j][1] \notin ReservedKeys
        /\ raw[j][1] \in Schema
        /\ TrimmedParts(raw[j][2]) # <<>>}}

\* C7: once the filter stage has run, each non-reserved schema-valid key
\* whose value has N >= 1 non-empty trimmed parts has exactly one predicate:
\* equality on the single literal when N = 1, membership over exactly the N
\* literals when N >= 2; and there is one predicate per such key, no other.
C7_OnePredicatePerField ==
    (pc > 1 /\ err = NoError) =>
        /\ \A f \in FilteringKeys :
              LET lits == TrimmedParts(ValueOf(raw, f))
              IN  /\ Cardinality(PredicatesOn(query, f)) = 1
                  /\ \A i \in PredicatesOn(query, f) :
                        /\ query[i].vals = lits
                        /\ query[i].op = IF Len(lits) = 1 THEN "filter_eq" ELSE "filter_in"
        /\ Cardinality({i \in 1..Len(query) : query[i].op \in FilterOps})
              = Cardinality(FilteringKeys)

\* a plan with an equality predicate on one field and a membership
\* predicate on another, from values that needed trimming
C7_Witness ==
    /\ Returned
    /\ Len(ret.plan) = 2
    /\ ret.plan[1].op = "filter_in" /\ ret.plan[2].op = "filter_eq"
    /\ ret.plan[1].field # ret.plan[2].field
    /\ \E i \in 1..Len(raw) : raw[i][2] # join(TrimmedParts(raw[i][2]), Comma)

\* the stripped non-empty tokens of the orderBy value
OrderTokensOf(d) == IF HasKey(d, K_orderBy) THEN TrimmedParts(ValueOf(d, K_orderBy)) ELSE <<>>

\* the field a token names: the text before its first colon
OrderFieldOf(tok) ==
    IF contains(tok, Colon) THEN strip(slice(tok, 1, find(tok, Colon) - 1)) ELSE tok

\* the direction a token gives: the text after its first colon
OrderDirectionOf(tok) == slice(tok, find(tok, Colon) + 1, Len(tok))

Asc  == <<"a","s","c">>

Desc == <<"d","e","s","c">>

BadDirection(tok) ==
    contains(tok, Colon) /\ lower(strip(OrderDirectionOf(tok))) \notin {Asc, Desc}

\* C10: when every orderBy token names a schema field, build_query fails
\* with the invalid-direction error exactly when some token field:direction
\* has a direction that, trimmed and lower-cased, is neither asc nor desc.
C10_DirectionChecked ==
    LET toks == OrderTokensOf(raw)
    IN  (Finished /\ \A i \in 1..Len(toks) : OrderFieldOf(toks[i]) \in Schema) =>
            ((Raised /\ err.kind = "Invalid order direction")
                <=> \E i \in 1..Len(toks) : BadDirection(toks[i]))

\* the empty direction after the colon is rejected
C10_Witness ==
    /\ Raised
    /\ err = HTTP400("Invalid order direction", <<>>)
    /\ \A i \in 1..Len(OrderTokensOf(raw)) : OrderFieldOf(OrderTokensOf(raw)[i]) \in Schema

\* an upper-case direction is accepted
C10_UpperCaseAccepted ==
    /\ Returned
    /\ \E i \in 1..Len(OrderTokensOf(raw)) :
          OrderDirectionOf(OrderTokensOf(raw)[i]) = <<"A","S","C">>

(***************************************************************************)
(* The specification's vocabulary for select tokens and errors.            *)
(***************************************************************************)
\* the four typed validation errors, by the raise site that produces them
ErrorCategory(e) ==
    CASE e.kind \in {"Invalid filter field", "Invalid select field format",
                     "Invalid select field", "Invalid column in aggregation",
                     "Invalid order by field", "Invalid group by field"}
            -> "InvalidFieldError"
      [] e.kind = "Invalid aggregation function" -> "InvalidAggregationError"
      [] e.kind = "Invalid alias format" -> "InvalidAliasError"
      [] e.kind = "Invalid order direction" -> "InvalidDirectionError"
      [] OTHER -> "untyped"

TypedErrors == {"InvalidFieldError", "InvalidAggregationError",
                "InvalidAliasError", "InvalidDirectionError"}

Whitelist == { <<"c","o","u","n","t">>, <<"s","u","m">>, <<"a","v","g">>,
               <<"m","i","n">>, <<"m","a","x">> }

\* letters, digits and underscores only
IsWordChar(c) == IsAlnumChar(c) \/ c = "_"

IsName(x) == x # <<>> /\ \A i \in 1..Len(x) : IsWordChar(x[i])

\* the stripped non-empty tokens of a list parameter of the raw mapping
TokensOf(d, k) == IF HasKey(d, k) THEN TrimmedParts(ValueOf(d, k)) ELSE <<>>

\* a select token as the caller wrote it: expression and alias, cut at the
\* first ";" or else at the first " as " in any letter case
TokenExpr(t) ==
    IF contains(t, Semi) THEN strip(slice(t, 1, find(t, Semi) - 1))
    ELSE IF contains(lower(t), AsSep) THEN strip(slice(t, 1, find(lower(t), AsSep) - 1))
    ELSE t

TokenAlias(t) ==
    IF contains(t, Semi) THEN strip(slice(t, find(t, Semi) + 1, Len(t)))
    ELSE IF contains(lower(t), AsSep)
         THEN strip(slice(t, find(lower(t), AsSep) + Len(AsSep), Len(t)))
    ELSE <<>>

\* the expression is func(field): it has a "(" and ends with its last ")"
IsAggregate(x) == contains(x, LPar) /\ x[Len(x)] = ")" /\ ~contains(slice(x, 1, find(x, LPar) - 1), RPar)

IsPlain(x) == ~contains(x, LPar) /\ ~contains(x, RPar)

TokenFunc(x) == strip(slice(x, 1, find(x, LPar) - 1))

\* the field an expression names, as the caller wrote it
TokenField(x) ==
    IF IsAggregate(x) THEN strip(slice(x, find(x, LPar) + 1, Len(x) - 1)) ELSE x

\* the expression is a field or an allowed function of a field
ExprWellFormed(x) ==
    \/ IsPlain(x) /\ IsName(x)
    \/ IsAggregate(x) /\ lower(TokenFunc(x)) \in Whitelist /\ IsName(TokenField(x))

AliasWellFormed(a) == a = <<>> \/ (IsName(a) /\ isalnum(remove(a, "_")))

\* every token of the request is well formed, whatever fields it names
RequestWellFormed ==
    /\ \A i \in 1..Len(TokensOf(raw, K_select)) :
          LET t == TokensOf(raw, K_select)[i]
          IN  ExprWellFormed(TokenExpr(t)) /\ AliasWellFormed(TokenAlias(t))
    /\ \A i \in 1..Len(OrderTokensOf(raw)) :
          IsName(OrderFieldOf(OrderTokensOf(raw)[i])) /\ ~BadDirection(OrderTokensOf(raw)[i])
    /\ \A i \in 1..Len(TokensOf(raw, K_groupBy)) : IsName(TokensOf(raw, K_groupBy)[i])

\* the field names the caller uses: filter keys, select tokens (plain or as
\* the target of an aggregate), orderBy tokens, groupBy tokens
FieldsUsed ==
    {raw[i][1] : i \in {j \in 1..Len(raw) : raw[j][1] \notin ReservedKeys}}
    \cup {TokenField(TokenExpr(TokensOf(raw, K_select)[i])) :
            i \in {j \in 1..Len(TokensOf(raw, K_select)) :
                LET x == TokenExpr(TokensOf(raw, K_select)[j])
                IN  IsPlain(x) \/ IsAggregate(x)}}
    \cup {OrderFieldOf(OrderTokensOf(raw)[i]) : i \in 1..Len(OrderTokensOf(raw))}
    \cup {TokensOf(raw, K_groupBy)[i] : i \in 1..Len(TokensOf(raw, K_groupBy))}

UnknownFieldUsed == \E f \in FieldsUsed : IsName(f) /\ f \notin Schema

\* C2: a request that uses a field name that is not in the schema, as a
\* filter key, a select token, the target of an aggregate, an orderBy token
\* or a groupBy token, never gets a plan: build_query fails, and with the
\* invalid-field error when nothing else is wrong with the request.
C2_FieldSoundness ==
    (Finished /\ UnknownFieldUsed) =>
        /\ Raised
        /\ RequestWellFormed => ErrorCategory(err) = "InvalidFieldError"

\* the select tokens of the form s(field), field in the schema, that name s
AggregateTokens(s) ==
    {i \in 1..Len(TokensOf(raw, K_select)) :
        \E f \in Schema : TokensOf(raw, K_select)[i] = s \o LPar \o f \o RPar}

\* the strings s before the "(" of a token
Prefixes(t) == {slice(t, 1, n) : n \in 0..Len(t)}

FunctionTexts == UNION {Prefixes(TokensOf(raw, K_select)[i]) : i \in 1..Len(TokensOf(raw, K_select))}

\* no projection of the query applies a function outside the whitelist
OnlyWhitelistedEmitted ==
    \A i \in 1..Len(query) : \A k \in 1..Len(query[i].cols) :
        query[i].cols[k].func \in Whitelist \cup {<<>>}

\* C4, as stated: for every string s that is not one of count, sum, avg,
\* min, max and every schema field, a select token s(field) makes
\* build_query fail with the invalid-aggregation error.
C4_WhitelistExact ==
    Finished =>
        \A s \in FunctionTexts :
            (s \notin Whitelist /\ AggregateTokens(s) # {}) =>
                Raised /\ ErrorCategory(err) = "InvalidAggregationError"

\* s is a function name: it holds none of the separators of the grammar
IsFunctionText(s) ==
    ~contains(s, LPar) /\ ~contains(s, Comma) /\ ~contains(s, Semi)
    /\ ~contains(lower(s), AsSep)

\* C4, amended: for every function name s whose trimmed lower-case form is
\* not one of count, sum, avg, min, max and every schema field, a select
\* token s(field) makes build_query fail with the invalid-aggregation error
\* naming that form, and no projection ever applies a function outside the
\* whitelist.
C4_WhitelistSound ==
    /\ OnlyWhitelistedEmitted
    /\ Finished =>
          \A s \in FunctionTexts :
              (IsFunctionText(s) /\ lower(strip(s)) \notin Whitelist
                  /\ AggregateTokens(s) # {}) =>
                  /\ Raised
                  /\ err = HTTP400("Invalid aggregation function", lower(strip(s)))
                  /\ ret = NoPlan

\* drop(field) is rejected after an earlier token of the list was accepted
C4_Witness ==
    /\ Raised
    /\ err = HTTP400("Invalid aggregation function", <<"d","r","o","p">>)
    /\ AggregateTokens(<<"d","r","o","p">>) # {}
    /\ Len(TokensOf(raw, K_select)) > 1
    /\ 1 \notin AggregateTokens(<<"d","r","o","p">>)

\* C5: build_query fails only with one of the four typed validation errors.
C5_OnlyTypedErrors == Raised => ErrorCategory(err) \in TypedErrors

\* C9: a select token whose expression is valid and whose alias holds a
\* character other than a letter, a digit or an underscore makes
\* build_query fail with the invalid-alias error.
C9_AliasValidated ==
    Finished =>
        \A i \in 1..Len(TokensOf(raw, K_select)) :
            LET t == TokensOf(raw, K_select)[i]
            IN  (/\ ExprWellFormed(TokenExpr(t))
                 /\ TokenField(TokenExpr(t)) \in Schema
                 /\ \E k \in 1..Len(TokenAlias(t)) : ~IsWordChar(TokenAlias(t)[k]))
                => Raised /\ ErrorCategory(err) = "InvalidAliasError"

(***************************************************************************)
(* Order of the clauses and of the projections.                            *)
(***************************************************************************)
\* the order-by clauses of a query, as <<field, direction>> pairs
OrderClauses(q) ==
    LET obs == SelectSeq(q, LAMBDA o : o.op = "order_by")
    IN  [i \in 1..Len(obs) |-> <<obs[i].field, obs[i].vals[1]>>]

\* the direction a token names, ascending when it has no colon
DirectionNamed(tok) ==
    IF contains(tok, Colon) THEN lower(strip(OrderDirectionOf(tok))) ELSE Asc

\* C11: the order clauses of a returned plan are exactly the non-empty
\* orderBy tokens in their left-to-right order, each with the direction it
\* names or ascending when it has no colon: none is moved, merged or dropped
\* as a duplicate.
C11_OrderClausesInOrder ==
    Returned =>
        OrderClauses(ret.plan) =
            [i \in 1..Len(OrderTokensOf(raw)) |->
                <<OrderFieldOf(OrderTokensOf(raw)[i]), DirectionNamed(OrderTokensOf(raw)[i])>>]

\* a plan that sorts by name before id, in different directions
C11_Witness ==
    /\ Returned
    /\ OrderClauses(ret.plan) = << <<F_name, Asc>>, <<F_id, Desc>> >>

\* the same clause twice is kept twice
C11_DuplicateKept ==
    /\ Returned
    /\ Len(OrderClauses(ret.plan)) = 2
    /\ OrderClauses(ret.plan)[1] = OrderClauses(ret.plan)[2]

\* the projection list of a query: the columns of its with_entities call
Projections(q) ==
    LET ws == SelectSeq(q, LAMBDA o : o.op = "with_entities")
    IN  IF ws = <<>> THEN <<>> ELSE ws[Len(ws)].cols

\* the column an expression names: the text between its first "(" and its
\* last ")" when it has a "(", else the expression itself
ExprColumn(x) ==
    IF contains(x, LPar) THEN strip(slice(x, find(x, LPar) + 1, rfind(x, RPar) - 1))
    ELSE x

\* the function an expression applies, none when it has no "("
ExprFunc(x) == IF contains(x, LPar) THEN TokenFunc(x) ELSE <<>>

\* the projection e is the one the token t asks for, letter case apart:
\* same function or none, same column, an alias only if t gives one
EntryOfToken(e, t) ==
    /\ lower(e.func) = lower(ExprFunc(TokenExpr(t)))
    /\ lower(e.column) = lower(ExprColumn(TokenExpr(t)))
    /\ e.alias.some => TokenAlias(t) # <<>>

\* C12: the projection list of a returned plan has exactly one entry per
\* non-empty select token, the i-th entry being the one of the i-th token:
\* plain and aggregate tokens keep their places.
C12_ProjectionsInOrder ==
    Returned =>
        /\ Len(Projections(ret.plan)) = Len(TokensOf(raw, K_select))
        /\ \A i \in 1..Len(Projections(ret.plan)) :
              EntryOfToken(Projections(ret.plan)[i], TokensOf(raw, K_select)[i])

\* an aliased aggregate before a plain field, kept in that order
C12_Witness ==
    /\ Returned
    /\ Len(Projections(ret.plan)) = 2
    /\ Projections(ret.plan)[1].func = <<"c","o","u","n","t">>
    /\ Projections(ret.plan)[1].column = F_id
    /\ Projections(ret.plan)[1].alias = Some(<<"t">>)
    /\ Projections(ret.plan)[2] = [func |-> <<>>, column |-> F_name, alias |-> None]

(***************************************************************************)
(* Determinism, the caller's mapping, concurrent requests.                 *)
(***************************************************************************)
\* C13: two QueryParsers constructed from the same raw parameters, be it
\* the very same mapping object or two equal mappings, end with equal
\* outcomes: equal plans, operation by operation in the same order, or the
\* same error.
C13_Determinism ==
    (Finished /\ OtherFinished /\ Source(2) = raw) =>
        /\ other.ret = ret
        /\ other.err = err

\* both were constructed from one mapping object and returned a plan with
\* all four kinds of operation
C13_Witness ==
    /\ Returned /\ OtherReturned
    /\ other.same
    /\ {Rank(o) : o \in Ops(ret.plan)} = 1..4
    /\ other.ret = ret

\* two equal mappings, and both requests failed
C13_WitnessError ==
    /\ Raised /\ OtherRaised
    /\ ~other.same /\ other.raw = raw
    /\ Len(raw) > 1

\* C14: no step of constructing a QueryParser or of build_query changes the
\* caller's raw mapping: select, orderBy and groupBy are removed from the
\* parser's own copy only.
C14_CallerMappingUnchanged == [][raw' = raw]_vars

\* build_query has returned; the mapping still has the three reserved keys,
\* the parser's copy has none of them
C14_Witness ==
    /\ Returned
    /\ HasKey(raw, K_select) /\ HasKey(raw, K_orderBy) /\ HasKey(raw, K_groupBy)
    /\ ~HasKey(params, K_select) /\ ~HasKey(params, K_orderBy) /\ ~HasKey(params, K_groupBy)
    /\ Len(params) = Len(raw) - 3

\* the outcome of q when the stage s is applied to it, for a QueryParser
\* constructed from the mapping r: an error stays
AfterStage(s, r, q) ==
    LET p1 == without(r, K_select)
        p2 == without(p1, K_orderBy)
        p3 == without(p2, K_groupBy)
    IN  IF q.err # NoError THEN q
        ELSE CASE s = "apply_filters"   -> apply_filters(p3, q.query)
               [] s = "apply_grouping"  -> apply_grouping(extract_param(r, K_groupBy), q.query)
               [] s = "apply_selection" -> apply_selection(extract_param(r, K_select), q.query)
               [] s = "apply_ordering"  -> apply_ordering(extract_param(r, K_orderBy), q.query)

\* the outcome of a request that runs alone on the mapping r: filters,
\* grouping, selection, ordering, one after the other
Alone(r) ==
    AfterStage("apply_ordering", r,
        AfterStage("apply_selection", r,
            AfterStage("apply_grouping", r,
                AfterStage("apply_filters", r, Return(<<>>)))))

\* the outcome a finished request ended with
Ended(e, rt) == IF e # NoError THEN Raise(e) ELSE Return(rt.plan)

\* C15: whatever the interleaving of the steps of two requests, each ends
\* with the plan or the error it ends with when it runs alone on its raw
\* parameters.
C15_NoInterference ==
    /\ Finished => Ended(err, ret) = Alone(raw)
    /\ OtherFinished => Ended(other.err, other.ret) = Alone(Source(2))

\* the second request was constructed, from other parameters, after the
\* first had started and finished before it; one returned, one failed
C15_Witness ==
    /\ OtherReturned
    /\ ~other.same /\ other.raw # raw
    /\ Len(other.ret.plan) > 1
    /\ pc \in 1..Len(build_query)
    /\ Len(query) > 0

(***************************************************************************)
(* The cut of a select token into expression and alias.                    *)
(***************************************************************************)
\* the token has the form "expression as alias", in any letter case of as
IsAsToken(t) == ~contains(t, Semi) /\ contains(lower(t), AsSep)

\* the alias of a projection, the empty string when it has none
AliasText(e) == IF e.alias.some THEN e.alias.val ELSE <<>>

\* C16: in a returned plan, the projection of a token "expression as alias"
\* (as in any letter case) has for column the one the text before the first
\* " as " names and for alias the whole text after it: nothing after a
\* second " as " is dropped.
C16_FirstAsSplits ==
    Returned =>
        \A i \in 1..Len(TokensOf(raw, K_select)) :
            LET t == TokensOf(raw, K_select)[i]
            IN  IsAsToken(t) =>
                    /\ i <= Len(Projections(ret.plan))
                    /\ Projections(ret.plan)[i].column = ExprColumn(TokenExpr(t))
                    /\ AliasText(Projections(ret.plan)[i]) = TokenAlias(t)

\* the text of a token before its first "(", trimmed
FuncText(t) == strip(slice(t, 1, find(t, LPar) - 1))

\* the text of a token between its first "(" and its last ")", trimmed
ColumnText(t) == strip(slice(t, find(t, LPar) + 1, rfind(t, RPar) - 1))

\* the select tokens with a "("
ParenTokens == {i \in 1..Len(TokensOf(raw, K_select)) : contains(TokensOf(raw, K_select)[i], LPar)}

\* C17: for an aggregate token, with or without an alias in either syntax,
\* the function looked up in the whitelist is the lower-cased text before
\* the first "(" and the column looked up in the schema is the text
\* between the first "(" and the last ")" as the caller wrote it: these
\* are the function and the column of its projection, and the names the
\* invalid-aggregation and invalid-column errors report.
C17_AggregateParts ==
    /\ Returned =>
          \A i \in ParenTokens :
              /\ i <= Len(Projections(ret.plan))
              /\ Projections(ret.plan)[i].func = lower(FuncText(TokensOf(raw, K_select)[i]))
              /\ Projections(ret.plan)[i].column = ColumnText(TokensOf(raw, K_select)[i])
    /\ (Raised /\ err.kind = "Invalid aggregation function") =>
          \E i \in ParenTokens :
              /\ err.tok = lower(FuncText(TokensOf(raw, K_select)[i]))
              /\ err.tok \notin Whitelist
    /\ (Raised /\ err.kind = "Invalid column in aggregation") =>
          \E i \in ParenTokens :
              /\ err.tok = ColumnText(TokensOf(raw, K_select)[i])
              /\ err.tok \notin Schema

(***************************************************************************)
(* Plain select tokens.                                                    *)
(***************************************************************************)
\* the field part is empty or has a character that is not a letter, a
\* digit or an underscore
BadFieldPart(x) == x = <<>> \/ \E k \in 1..Len(x) : ~IsWordChar(x[k])

\* the plain select tokens whose field part is malformed
BadPlainTokens ==
    {i \in 1..Len(TokensOf(raw, K_select)) :
        LET t == TokensOf(raw, K_select)[i]
        IN  ~contains(t, LPar) /\ BadFieldPart(TokenExpr(t))}

\* C18: a request with a plain select token whose field part is empty or
\* holds a character other than a letter, a digit or an underscore gets no
\* plan and no projection; when the tokens before it are fields of the
\* schema, the error is the one of the format check, raised before the
\* schema is looked at.
C18_PlainFieldFormat ==
    \A i \in BadPlainTokens :
        /\ ret = NoPlan
        /\ Projections(query) = <<>>
        /\ Finished => Raised
        /\ (Finished /\ \A j \in 1..(i - 1) : TokensOf(raw, K_select)[j] \in Schema) =>
              err.kind = "Invalid select field format"

\* a field part with a space, after a valid token and with a valid alias,
\* is rejected
C18_Witness ==
    /\ Raised
    /\ 2 \in BadPlainTokens
    /\ TokenExpr(TokensOf(raw, K_select)[2]) = <<"i"," ","d">>
    /\ TokenAlias(TokensOf(raw, K_select)[2]) = <<"t">>
    /\ err = HTTP400("Invalid select field format", <<"i"," ","d">>)

(***************************************************************************)
(* Filter values.                                                          *)
(***************************************************************************)
\* the schema-valid filter keys whose value has no non-empty part
EmptyValuedKeys ==
    {raw[i][1] : i \in {j \in 1..Len(raw) :
        /\ raw[j][1] \notin ReservedKeys
        /\ raw[j][1] \in Schema
        /\ TrimmedParts(raw[j][2]) = <<>>}}

\* every key of the mapping is reserved or a field of the schema
AllKeysValid == \A i \in 1..Len(raw) : raw[i][1] \in ReservedKeys \cup Schema

\* C19: a schema-valid filter key whose value has no non-empty part after
\* splitting on commas and trimming never gets a predicate and does not
\* make the filter stage fail; once the stage has run, every other
\* filtering key has its predicate.
C19_EmptyValueSkipped ==
    \A f \in EmptyValuedKeys :
        /\ PredicatesOn(query, f) = {}
        /\ AllKeysValid => err.kind # "Invalid filter field"
        /\ (AllKeysValid /\ pc > 1) =>
              /\ \A g \in FilteringKeys : Cardinality(PredicatesOn(query, g)) = 1
              /\ Len(SelectSeq(query, LAMBDA o : o.op \in FilterOps)) = Cardinality(FilteringKeys)

\* a value of commas and blanks only, before a key with a literal: the
\* plan has the predicate of the second key alone
C19_Witness ==
    /\ Returned
    /\ Len(raw) = 2
    /\ raw[1][1] \in EmptyValuedKeys
    /\ contains(raw[1][2], Comma)
    /\ raw[2][1] \in FilteringKeys
    /\ Len(ret.plan) = 1
    /\ ret.plan[1].field = raw[2][1]

\* the predicates the filter keys of a mapping ask for, in the order of the
\* keys: the field is the key, the literals are the trimmed non-empty parts
\* of the value as they are, the kind depends on their number alone
ExpectedPredicates(d) ==
    LET es == SelectSeq(d, LAMBDA e : e[1] \notin ReservedKeys /\ TrimmedParts(e[2]) # <<>>)
    IN  [i \in 1..Len(es) |->
            [field |-> es[i][1],
             vals  |-> TrimmedParts(es[i][2]),
             kind  |-> IF Len(TrimmedParts(es[i][2])) = 1 THEN "filter_eq" ELSE "filter_in"]]

\* the filter predicates of a query
Predicates(q) ==
    LET fs == SelectSeq(q, LAMBDA o : o.op \in FilterOps)
    IN  [i \in 1..Len(fs) |-> [field |-> fs[i].field, vals |-> fs[i].vals, kind |-> fs[i].op]]

\* C20: the filter stage accepts every value of a schema-valid key, and
\* once it has run the predicates are, key by key, on the key's field with
\* exactly the trimmed non-empty parts of the value as literals, quotes and
\* semicolons included; what a part holds changes neither the field nor
\* the kind of the predicate.
C20_ValuesOpaque ==
    AllKeysValid =>
        /\ err.kind # "Invalid filter field"
        /\ pc > 1 => Predicates(query) = ExpectedPredicates(raw)

\* a membership predicate with a literal that holds a quote, a semicolon
\* and a comment mark
C20_Witness ==
    /\ Returned
    /\ \E i \in 1..Len(ret.plan) :
          /\ ret.plan[i].op = "filter_in"
          /\ ret.plan[i].vals = << <<"b">>, <<"c","'",";","-","-">> >>

(***************************************************************************)
(* Ordering and the aliases of the projection.                             *)
(***************************************************************************)
\* the aliases the select tokens of the request define
AliasesDefined ==
    {TokenAlias(TokensOf(raw, K_select)[i]) : i \in 1..Len(TokensOf(raw, K_select))} \ {<<>>}

\* the orderBy tokens that name an alias of the select and no schema field
AliasOrderTokens ==
    {i \in 1..Len(OrderTokensOf(raw)) :
        /\ OrderFieldOf(OrderTokensOf(raw)[i]) \in AliasesDefined
        /\ OrderFieldOf(OrderTokensOf(raw)[i]) \notin Schema}

\* C21: every order clause is on a schema field under its own name, and a
\* request whose orderBy names an alias of its select that is not a schema
\* field gets no plan: when the earlier stages pass and the tokens before
\* it are valid, the error is the invalid-order-field error naming the
\* alias.
C21_NoAliasResolution ==
    /\ \A k \in 1..Len(OrderClauses(query)) : OrderClauses(query)[k][1] \in Schema
    /\ \A i \in AliasOrderTokens :
          /\ ret = NoPlan
          /\ Finished => Raised
          /\ (/\ Finished
              /\ Projections(query) # <<>>
              /\ \A j \in 1..(i - 1) :
                    /\ OrderFieldOf(OrderTokensOf(raw)[j]) \in Schema
                    /\ ~BadDirection(OrderTokensOf(raw)[j]))
             => err = HTTP400("Invalid order by field", OrderFieldOf(OrderTokensOf(raw)[i]))

\* the select was accepted with the alias n, and the orderBy token n,
\* after a token on a field, failed
C21_Witness ==
    /\ Raised
    /\ err = HTTP400("Invalid order by field", <<"n">>)
    /\ \E k \in 1..Len(Projections(query)) : AliasText(Projections(query)[k]) = <<"n">>
    /\ OrderTokensOf(raw) = << F_id, <<"n">> >>
    /\ 2 \in AliasOrderTokens

(***************************************************************************)
(* The list endpoint: pagination and the include parameter.                *)
(***************************************************************************)
Responded == http.route = "list" /\ http.step = "responded"

\* the rows the plan build_query returned selects, in the plan's order
PlanRows == all(ret.plan, store).items

Drop(s, n) == IF n >= Len(s) THEN <<>> ELSE SubSeq(s, n + 1, Len(s))

Take(s, n) == IF n >= Len(s) THEN s ELSE SubSeq(s, 1, n)

PaginationOps == {"offset", "limit"}

IncludeValid ==
    /\ HasKey(raw, K_include)
    /\ ValueOf(raw, K_include) # <<>>
    /\ validate_include_param("Item", parse_include_param(ValueOf(raw, K_include))) = NoError

\* the request is valid apart from its include: skip and limit are in range
\* and the other parameters on their own give a plan
OtherParamsValid ==
    /\ Query(raw, K_skip, 0, 0, NoLimit).ok
    /\ Query(raw, K_limit, 100, 1, 1000).ok
    /\ Alone(without(raw, K_include)).err = NoError

\* C26: on the list endpoint include is consumed by the association layer
\* and is not a filter field: with associations enabled, a request whose
\* include names valid associations and whose other parameters are valid is
\* answered 200 with the records, never with the invalid-filter-field error.
C26_IncludeNotAFilter ==
    (Responded /\ http.enable_associations /\ IncludeValid /\ OtherParamsValid) =>
        /\ http.detail.kind # "Invalid filter field"
        /\ http.status = 200
        /\ http.items = Take(Drop(all(Alone(without(raw, K_include)).query, store).items,
                                  http.skip), http.limit)

(***************************************************************************)
(* Aliases and the two alias syntaxes.                                     *)
(***************************************************************************)
SelectTokensOf(d) == TokensOf(d, K_select)

\* C23: every non-empty alias made up only of letters, digits and
\* underscores is accepted, in plain and in aggregate tokens and in both
\* syntaxes: a select whose aliases are all such words never fails with the
\* invalid-alias error.
C23_WordAliasAccepted ==
    (/\ Raised
     /\ \A i \in 1..Len(SelectTokensOf(raw)) :
           LET a == TokenAlias(SelectTokensOf(raw)[i])
           IN  a = <<>> \/ IsName(a))
    => err.kind # "Invalid alias format"

\* an expression of the documented syntax: a field, or func(field)
IsExpression(x) ==
    \/ IsPlain(x) /\ IsName(x)
    \/ IsAggregate(x) /\ IsName(TokenFunc(x)) /\ IsName(TokenField(x))

\* the select tokens written X;A with X an expression and A a word
SemiTokens(d) ==
    {i \in 1..Len(SelectTokensOf(d)) :
        LET t == SelectTokensOf(d)[i]
        IN  /\ contains(t, Semi)
            /\ IsExpression(TokenExpr(t))
            /\ IsName(TokenAlias(t))}

\* the mapping d with the value v under the key k
WithValue(d, k, v) == [i \in 1..Len(d) |-> IF d[i][1] = k THEN <<k, v>> ELSE d[i]]

\* the request d with its select token i, X;A, written X as A
WrittenWithAs(d, i) ==
    LET toks == SelectTokensOf(d)
        t    == TokenExpr(toks[i]) \o AsSep \o TokenAlias(toks[i])
    IN  WithValue(d, K_select, join([j \in 1..Len(toks) |-> IF j = i THEN t ELSE toks[j]], Comma))

\* the same plan, or the same validation error
SameOutcome(a, b) ==
    IF a.err # NoError \/ b.err # NoError THEN a.err.kind = b.err.kind
    ELSE a.query = b.query

\* C24: the two alias syntaxes are interchangeable.  A request with a select
\* token X;A, X a field or func(field) and A an alias, ends as the request
\* that writes the token X as A ends: with the same plan, or with the same
\* validation error.
C24_SyntaxesInterchangeable ==
    Finished =>
        \A i \in SemiTokens(raw) : SameOutcome(Ended(err, ret), Alone(WrittenWithAs(raw, i)))

\* the select tokens with a parenthesis
ParenthesisTokens(d) ==
    {i \in 1..Len(SelectTokensOf(d)) :
        contains(SelectTokensOf(d)[i], LPar) \/ contains(SelectTokensOf(d)[i], RPar)}

\* C25: an aggregate select token is accepted only in the shapes func(field),
\* func(field);alias and func(field) as alias.  In a request that gets a plan,
\* the expression of every token with a parenthesis ends with its closing
\* parenthesis: no characters stand between it and the alias separator or
\* the end of the token.
C25_NothingAfterParenthesis ==
    Returned =>
        \A i \in ParenthesisTokens(raw) : IsAggregate(TokenExpr(SelectTokensOf(raw)[i]))

(***************************************************************************)
(* The error reported for a request that is invalid in several places.     *)
(***************************************************************************)
\* the first error of a list of checks, NoError when none fails
RECURSIVE FirstError(_)
FirstError(errs) ==
    IF errs = <<>> THEN NoError
    ELSE IF Head(errs) # NoError THEN Head(errs)
    ELSE FirstError(Tail(errs))

FilterKeyError(k) ==
    IF k \notin ReservedKeys /\ k \notin Schema THEN HTTP400("Invalid filter field", k)
    ELSE NoError

GroupTokenError(t) ==
    IF t \notin Schema THEN HTTP400("Invalid group by field", t) ELSE NoError

\* for a select token without alias: a field, or func(field)
SelectTokenError(t) ==
    IF IsAggregate(t)
    THEN IF lower(TokenFunc(t)) \notin Whitelist
         THEN HTTP400("Invalid aggregation function", lower(TokenFunc(t)))
         ELSE IF TokenField(t) \notin Schema
         THEN HTTP400("Invalid column in aggregation", TokenField(t))
         ELSE NoError
    ELSE IF t \notin Schema THEN HTTP400("Invalid select field", t)
    ELSE NoError

OrderTokenError(t) ==
    IF OrderFieldOf(t) \notin Schema THEN HTTP400("Invalid order by field", OrderFieldOf(t))
    ELSE IF BadDirection(t)
    THEN HTTP400("Invalid order direction", lower(strip(OrderDirectionOf(t))))
    ELSE NoError

\* the error of each stage: that of its leftmost invalid entry
StageErrors(d) ==
    << FirstError([i \in 1..Len(d) |-> FilterKeyError(d[i][1])]),
       FirstError([i \in 1..Len(TokensOf(d, K_groupBy)) |->
                      GroupTokenError(TokensOf(d, K_groupBy)[i])]),
       FirstError([i \in 1..Len(SelectTokensOf(d)) |->
                      SelectTokenError(SelectTokensOf(d)[i])]),
       FirstError([i \in 1..Len(OrderTokensOf(d)) |->
                      OrderTokenError(OrderTokensOf(d)[i])]) >>

NoAliases(d) ==
    \A i \in 1..Len(SelectTokensOf(d)) :
        /\ TokenAlias(SelectTokensOf(d)[i]) = <<>>
        /\ IsExpression(SelectTokensOf(d)[i])

\* C27: a request invalid in more than one place fails with the error of
\* the earliest failing stage in the order filter, group, select, order, and
\* within the stage with that of its leftmost invalid entry; a request
\* invalid nowhere gets a plan.  (Select tokens without alias.)
C27_EarliestErrorReported ==
    (Finished /\ NoAliases(raw)) =>
        IF FirstError(StageErrors(raw)) = NoError THEN Returned
        ELSE Raised /\ err = FirstError(StageErrors(raw))

\* the filters, the select and the orderBy are invalid, two filter keys are
\* unknown and select is the first key of the mapping: the leftmost unknown
\* filter key is reported
C27_Witness ==
    /\ Raised
    /\ \A k \in {1, 3, 4} : StageErrors(raw)[k] # NoError
    /\ raw[1][1] = K_select
    /\ \E i, j \in 1..Len(raw) : i < j /\ raw[i][1] = F_zz /\ raw[j][1] = F_nope
    /\ err = HTTP400("Invalid filter field", F_zz)

(***************************************************************************)
(* The builder after its construction.                                     *)
(***************************************************************************)
Constructed == pc \in 1..(Len(build_query) + 3)

\* no step of a constructed builder changes what it stores
BuilderUnchanged ==
    Constructed =>
        /\ params' = params
        /\ select_fields' = select_fields
        /\ order_by' = order_by
        /\ group_by' = group_by

\* every call of build_query that has ended gave what the first call gave
SameEveryTime ==
    Finished => \A k \in 1..Len(builds) : builds[k] = [err |-> err, ret |-> ret]

\* C28: after construction the builder is never modified: no stage and no
\* call of build_query changes its residual parameters or its stored
\* select, orderBy and groupBy; and every call of build_query on the same
\* builder with the same base query gives the same plan or the same error.
C28_StatelessAfterConstruction == [][BuilderUnchanged]_vars /\ []SameEveryTime

\* the last call has ended with a plan of several operations, as the calls
\* before it
C28_Witness ==
    /\ Returned
    /\ Len(builds) = MaxBuilds - 1
    /\ builds[1] = [err |-> err, ret |-> ret]
    /\ Len(ret.plan) >= 3

(***************************************************************************)
(* The item routes: what PUT changes, and ids that were deleted.           *)
(***************************************************************************)
Ids(rows) == {rows[i].id : i \in 1..Len(rows)}

\* the step serves a PUT /{id}: store is the table before, store' after,
\* http' the request and its response
PutFrame ==
    LET id   == http'.item_id
        body == http'.item
    IN  /\ http'.status \in {200, 400, 404}
        /\ http'.status = 404 <=> id \notin Ids(store)
        /\ http'.status = 400 =>
              \E i \in 1..Len(store) :
                  /\ store[i].id # id
                  /\ "email" \in body.fields_set
                  /\ store[i].email = body.values["email"]
        /\ http'.status \in {400, 404} => store' = store
        /\ http'.status = 200 =>
              /\ Len(store') = Len(store)
              /\ \A i \in 1..Len(store) :
                    IF store[i].id = id
                    THEN /\ store'[i].id = id
                         /\ \A f \in Columns :
                               store'[i][f] = IF f \in body.fields_set THEN body.values[f]
                                              ELSE store[i][f]
                    ELSE store'[i] = store[i]

\* C29: PUT /{id} on an existing record changes only the fields present in
\* the body: the other fields of the record and every other record keep
\* their values; a PUT answered 404 (unknown id) or 400 (uniqueness
\* violation) leaves the whole store unchanged.
C29_PutChangesOnlyGivenFields == [][http'.route = "update" => PutFrame]_vars

\* a PUT that gave the name only, on a table of two records: the email of
\* the record is the one it had
C29_Witness ==
    /\ http.route = "update"
    /\ http.status = 200
    /\ http.item.fields_set = {"name"}
    /\ Len(store) >= 2
    /\ http.returned[1].name = http.item.values["name"]
    /\ http.returned[1].email \in Emails
    /\ \E i \in 1..Len(store) : store[i] = http.returned[1]

\* the step serves a request for one id
ForOneId == http'.route \in {"get", "update", "delete"}

\* ids enter gone by a DELETE answered 204 and leave it by a create that
\* gives the id to a new record
GoneKept ==
    /\ (http'.route = "delete" /\ http'.status = 204) => http'.item_id \in http'.gone
    /\ \A i \in http.gone \ http'.gone :
          /\ http'.route = "create"
          /\ http'.status = 201
          /\ http'.returned[1].id = i
    /\ \A i \in http'.gone \ http.gone :
          /\ http'.route = "delete"
          /\ http'.status = 204
          /\ http'.item_id = i

====
